---- MODULE Spec2Model ----
(***************************************************************************)
(* Render coordination and graph cache of the obsidian-desmos plugin.      *)
(*                                                                         *)
(* The model follows the built plugin (src/unnamed/part_000, the bundle    *)
(* main.js): Renderer.render, its window "message" handler, the scripts of *)
(* the iframe it creates, the settings tab and the asynchronous file       *)
(* operations of the filesystem cache; and Dsl.parse with the Dsl           *)
(* constructor, which computes the hash.                                   *)
(***************************************************************************)
EXTENDS Integers, Sequences, FiniteSets, TLC

VARIABLES
    settings,     \* plugin.settings.cache: [enabled, location, directory]
    graph_cache,  \* plugin.graph_cache: hash -> data URI (NoData when not a key)
    dirs,         \* directories that exist on disk
    files,        \* cache files on disk: <<dir, hash>> -> bytes (NoFile when absent)
    pc,           \* where each render request stands
    hash,         \* args.hash of each request
    el,           \* children of each request's output element
    resolved,     \* requests whose promise has been resolved
    listeners,    \* requests whose handler is registered on window
    cache_dir,    \* cache_dir captured by each request's closure
    frame,        \* state of the iframe each request created
    msgs,         \* message events queued on the window, oldest first
    store,        \* what each request's handler did with the cache
    notices,      \* obsidian.Notice shown on behalf of each request
    source,       \* the source text handed to each call of Dsl.parse
    parsed,       \* what each call of Dsl.parse came to
    srcdoc,       \* the page Renderer.render wrote for the iframe of each call
    skip_debounce, \* plugin.skip_debounce
    debounce,     \* plugin.settings.debounce
    pending,      \* the request the debouncer holds for its timer, 0 when none
    route         \* the path the code block processor sent each request on

(* The state of the code block processor and its debouncer *)
debouncer == <<skip_debounce, debounce, pending, route>>

vars == <<settings, graph_cache, dirs, files, pc, hash, el, resolved,
          listeners, cache_dir, frame, msgs, store, notices, source, parsed, srcdoc,
          skip_debounce, debounce, pending, route>>

----------------------------------------------------------------------------
(* Bounds of the model *)

MaxReq == 2

MaxQueue == 2

Reqs == 1..MaxReq

(* Fingerprints (Dsl.hash values) and rendered images the model draws from *)
Hashes == {"h1", "h2"}

Images == {"pngA", "pngB"}

----------------------------------------------------------------------------
(* Values *)

NoData == <<>>

NoFile == "absent"

NoDir == <<>>

AppOrigin == "app://obsidian.md"

OtherOrigin == "https://elsewhere.example"

GraphTag == "desmos-graph"

PngPrefix == "data:image/png;base64,"

ErrorMessage == "analysis error"

CacheLocation == {"Memory", "Filesystem"}

(* DEFAULT_SETTINGS_STATIC.debounce. A debounce setting is a number, or is
   not set in the data the plugin loaded *)
DEFAULT_DEBOUNCE == [set |-> TRUE, ms |-> 500]

Undefined == [set |-> FALSE, ms |-> 0]

(* What the debouncer holds: the arguments of the last call, or nothing *)
NoPending == [r |-> 0, text |-> <<>>]

DEFAULT_SETTINGS_STATIC == [enabled |-> TRUE, location |-> "Memory", directory |-> <<>>]

(* Buffer.from(data).toString("base64") and its inverse, the "base64" encoding of writeFile *)
Base64Encode(bytes) == <<"b64", bytes>>

Base64Decode(b64) == b64[2]

(* The data URI calculator.asyncScreenshot hands to its callback *)
DataUri(bytes) == <<PngPrefix>> \o Base64Encode(bytes)

(* data.replace(/^data:image\/png;base64,/, "") *)
StripPrefix(data) == IF Len(data) > 0 /\ data[1] = PngPrefix THEN Tail(data) ELSE data

(* "data:image/png;base64," + Buffer.from(data).toString("base64") *)
ReadAsDataUri(bytes) == <<PngPrefix>> \o Base64Encode(bytes)

(* Nodes of an output element *)
ImgNode(src) == [kind |-> "img", src |-> src]

IframeNode(h) == [kind |-> "iframe", src |-> <<h>>]

(* renderError: the element's content is replaced by the error box *)
ErrorNode(msg) == [kind |-> "error", src |-> <<msg>>]

(* A request's cache store: none yet; "memory", the insert into graph_cache;
   a writeFile promise that is "pending", fulfilled ("done") or rejected
   ("failed"); "nodir", the cache directory was not found *)
NoWrite == [st |-> "none", data |-> <<>>]

(* `if (settings.cache)`: settings.cache is the cache settings object, and an
   object is truthy whatever its `enabled` field holds *)
CacheTruthy(c) == TRUE

----------------------------------------------------------------------------
(* Strings. A string is the sequence of its characters. *)

Digits == <<"0", "1", "2", "3", "4", "5", "6", "7", "8", "9">>

LowerCase == <<"a", "b", "c", "d", "e", "f", "g", "h", "i", "j", "k", "l", "m",
               "n", "o", "p", "q", "r", "s", "t", "u", "v", "w", "x", "y", "z">>

UpperCase == <<"A", "B", "C", "D", "E", "F", "G", "H", "I", "J", "K", "L", "M",
               "N", "O", "P", "Q", "R", "S", "T", "U", "V", "W", "X", "Y", "Z">>

(* Characters String.prototype.trim and parseInt skip *)
WhiteSpace == {" ", "\t", "\n"}

Min(S) == CHOOSE i \in S : \A j \in S : i <= j

Max(S) == CHOOSE i \in S : \A j \in S : i >= j

(* s.slice(i - 1): the characters of s from the i-th on *)
Slice(s, i) == SubSeq(s, i, Len(s))

(* Position of the first occurrence of pat in s at or after i, 0 when none *)
RECURSIVE IndexOfFrom(_, _, _)
IndexOfFrom(s, pat, i) ==
    IF i + Len(pat) - 1 > Len(s) THEN 0
    ELSE IF SubSeq(s, i, i + Len(pat) - 1) = pat THEN i
    ELSE IndexOfFrom(s, pat, i + 1)

(* s.split(sep) for a non-empty string sep *)
RECURSIVE Split(_, _)
Split(s, sep) ==
    LET j == IndexOfFrom(s, sep, 1) IN
    IF j = 0 THEN <<s>>
    ELSE <<SubSeq(s, 1, j - 1)>> \o Split(Slice(s, j + Len(sep)), sep)

(* s.split(/[D]+/): split at every maximal run of characters of D *)
RECURSIVE SplitRuns(_, _)
SplitRuns(s, D) ==
    LET I == {i \in 1..Len(s) : s[i] \in D} IN
    IF I = {} THEN <<s>>
    ELSE LET first == Min(I)
             after == {k \in first..Len(s) : s[k] \notin D}
             next == IF after = {} THEN Len(s) + 1 ELSE Min(after)
         IN <<SubSeq(s, 1, first - 1)>> \o SplitRuns(Slice(s, next), D)

(* s.trim() *)
Trim(s) ==
    LET I == {i \in 1..Len(s) : s[i] \notin WhiteSpace} IN
    IF I = {} THEN <<>> ELSE SubSeq(s, Min(I), Max(I))

(* array.filter(Boolean) on an array of strings: the empty string is falsy *)
FilterBoolean(parts) == SelectSeq(parts, LAMBDA p : p # <<>>)

(* parts.join(sep) *)
RECURSIVE Join(_, _)
Join(parts, sep) ==
    IF parts = <<>> THEN <<>>
    ELSE IF Len(parts) = 1 THEN parts[1]
    ELSE parts[1] \o sep \o Join(Tail(parts), sep)

(* s.includes(c) for a character c *)
Includes(s, c) == \E i \in 1..Len(s) : s[i] = c

ToUpperChar(c) ==
    IF \E i \in 1..Len(LowerCase) : LowerCase[i] = c
    THEN UpperCase[CHOOSE i \in 1..Len(LowerCase) : LowerCase[i] = c]
    ELSE c

(* s.toUpperCase() *)
ToUpperCase(s) == [i \in 1..Len(s) |-> ToUpperChar(s[i])]

DigitValue(c) == (CHOOSE i \in 1..Len(Digits) : Digits[i] = c) - 1

IsDigit(c) == \E i \in 1..Len(Digits) : Digits[i] = c

RECURSIVE DigitsValue(_, _)
(* The number the decimal digits ds denote, after the digits that gave acc *)
DigitsValue(ds, acc) ==
    IF ds = <<>> THEN acc ELSE DigitsValue(Tail(ds), 10 * acc + DigitValue(ds[1]))

(* parseInt(s): white space is skipped, then an optional sign and the longest
   run of decimal digits are read and whatever follows is ignored; NaN when
   there is no digit. (No string the model parses has the 0x prefix.) *)
ParseInt(s) ==
    LET I == {i \in 1..Len(s) : s[i] \notin WhiteSpace}
        t == IF I = {} THEN <<>> ELSE Slice(s, Min(I))
        signed == t # <<>> /\ t[1] \in {"-", "+"}
        u == IF signed THEN Tail(t) ELSE t
        stop == {k \in 1..Len(u) : ~IsDigit(u[k])}
        ds == IF stop = {} THEN u ELSE SubSeq(u, 1, Min(stop) - 1)
    IN IF ds = <<>> THEN [nan |-> TRUE, n |-> 0]
       ELSE [nan |-> FALSE,
             n |-> IF signed /\ t[1] = "-" THEN 0 - DigitsValue(ds, 0) ELSE DigitsValue(ds, 0)]

RECURSIVE NatToString(_)
NatToString(n) ==
    IF n < 10 THEN <<Digits[n + 1]>> ELSE NatToString(n \div 10) \o <<Digits[(n % 10) + 1]>>

(* The decimal text JSON.stringify writes for an integer *)
NumberToString(n) == IF n < 0 THEN <<"-">> \o NatToString(0 - n) ELSE NatToString(n)

(* The text JSON.stringify writes for a string: quoted, with the quote, the
   backslash and the control characters escaped *)
JsonEscape(c) ==
    IF c = "\"" THEN <<"\\", "\"">>
    ELSE IF c = "\\" THEN <<"\\", "\\">>
    ELSE IF c = "\n" THEN <<"\\", "n">>
    ELSE IF c = "\t" THEN <<"\\", "t">>
    ELSE <<c>>

RECURSIVE JsonEscapeAll(_)
JsonEscapeAll(s) == IF s = <<>> THEN <<>> ELSE JsonEscape(s[1]) \o JsonEscapeAll(Tail(s))

JsonString(s) == <<"\"">> \o JsonEscapeAll(s) \o <<"\"">>

----------------------------------------------------------------------------
(* Objects. An object is the sequence of its <<key, value>> properties in
   insertion order, the order JSON.stringify writes them in. *)

HasKey(obj, key) == \E i \in 1..Len(obj) : obj[i][1] = key

Get(obj, key) == obj[CHOOSE i \in 1..Len(obj) : obj[i][1] = key][2]

(* obj[key] = value: an existing property keeps its place *)
Put(obj, key, value) ==
    IF HasKey(obj, key)
    THEN [i \in 1..Len(obj) |-> IF obj[i][1] = key THEN <<key, value>> ELSE obj[i]]
    ELSE Append(obj, <<key, value>>)

RECURSIVE ObjectAssign(_, _)
(* Object.assign(target, src) *)
ObjectAssign(target, src) ==
    IF src = <<>> THEN target
    ELSE ObjectAssign(Put(target, src[1][1], src[1][2]), Tail(src))

(* JSON.stringify of an object whose property values are already written *)
JsonObject(obj) ==
    <<"{">> \o Join([i \in 1..Len(obj) |-> JsonString(obj[i][1]) \o <<":">> \o obj[i][2]], <<",">>)
    \o <<"}">>

JsonArray(items) == <<"[">> \o Join(items, <<",">>) \o <<"]">>

----------------------------------------------------------------------------
(* Dsl *)

kWidth == <<"w", "i", "d", "t", "h">>

kHeight == <<"h", "e", "i", "g", "h", "t">>

kLeft == <<"l", "e", "f", "t">>

kRight == <<"r", "i", "g", "h", "t">>

kBottom == <<"b", "o", "t", "t", "o", "m">>

kTop == <<"t", "o", "p">>

kEquation == <<"e", "q", "u", "a", "t", "i", "o", "n">>

kStyle == <<"s", "t", "y", "l", "e">>

kColor == <<"c", "o", "l", "o", "r">>

kRestriction == <<"r", "e", "s", "t", "r", "i", "c", "t", "i", "o", "n">>

kEquations == <<"e", "q", "u", "a", "t", "i", "o", "n", "s">>

kFields == <<"f", "i", "e", "l", "d", "s">>

FIELD_DEFAULTS ==
    << <<kWidth, 600>>, <<kHeight, 400>>, <<kLeft, -10>>, <<kRight, 10>>,
       <<kBottom, -7>>, <<kTop, 7>> >>

EquationStyle == {<<"S", "O", "L", "I", "D">>, <<"D", "A", "S", "H", "E", "D">>, <<"D", "O", "T", "T", "E", "D">>,
                  <<"P", "O", "I", "N", "T">>, <<"O", "P", "E", "N">>, <<"C", "R", "O", "S", "S">>}

EquationColor == {<<"R", "E", "D">>, <<"B", "L", "U", "E">>, <<"G", "R", "E", "E", "N">>,
                  <<"P", "U", "R", "P", "L", "E">>, <<"O", "R", "A", "N", "G", "E">>, <<"B", "L", "A", "C", "K">>}

isHexColor(value) ==
    /\ Len(value) > 1
    /\ value[1] = "#"
    /\ \A i \in 2..Len(value) :
          IsDigit(value[i]) \/ Includes(LowerCase, value[i]) \/ Includes(UpperCase, value[i])

NoError == [name |-> "", message |-> "", detail |-> <<>>]

(* What a call comes to: it returns a value or throws *)
Return(v) == [ok |-> TRUE, val |-> v, err |-> NoError]

(* throw new SyntaxError(...): message is the fixed text of the message,
   detail the text the code interpolates into it *)
Throw(message, detail) ==
    [ok |-> FALSE, val |-> <<>>,
     err |-> [name |-> "SyntaxError", message |-> message, detail |-> detail]]

(* The backtick, a character no string of this notation can hold *)
Backtick == "(backtick)"

bannedChars == <<"\"", "'", Backtick>>

(* Variant: the backtick is not among the banned characters *)
assert_notbanned_QuotesOnly(value, ctx) ==
    LET I == {i \in 1..2 : Includes(value, bannedChars[i])} IN
    IF I = {} THEN Return(<<>>)
    ELSE Throw("Unexpected character in " \o ctx, <<bannedChars[Min(I)]>>)

(* Dsl.assert_notbanned(value, ctx): the first banned character value includes *)
assert_notbanned(value, ctx) ==
    LET I == {i \in 1..Len(bannedChars) : Includes(value, bannedChars[i])} IN
    IF I = {} THEN Return(<<>>)
    ELSE Throw("Unexpected character in " \o ctx, <<bannedChars[Min(I)]>>)

(* Variant: only the horizontal bounds are compared *)
assert_sanity_LeftRightOnly(fields) ==
    IF Get(fields, kLeft) >= Get(fields, kRight)
    THEN Throw("Right boundary must be greater than left boundary",
               NumberToString(Get(fields, kRight)) \o <<",">> \o NumberToString(Get(fields, kLeft)))
    ELSE Return(<<>>)

(* Dsl.assert_sanity(fields) *)
assert_sanity(fields) ==
    IF Get(fields, kLeft) >= Get(fields, kRight)
    THEN Throw("Right boundary must be greater than left boundary",
               NumberToString(Get(fields, kRight)) \o <<",">> \o NumberToString(Get(fields, kLeft)))
    ELSE IF Get(fields, kBottom) >= Get(fields, kTop)
    THEN Throw("Top boundary must be greater than bottom boundary",
               NumberToString(Get(fields, kTop)) \o <<",">> \o NumberToString(Get(fields, kBottom)))
    ELSE Return(<<>>)

(* JSON.stringify of one equation object *)
JsonEquation(eq) == JsonObject([i \in 1..Len(eq) |-> <<eq[i][1], JsonString(eq[i][2])>>])

(* Variant: the fields are left out of the text that is hashed *)
JsonStringify_EquationsOnly(equations, fields) ==
    JsonObject(<< <<kEquations,
                    JsonArray([i \in 1..Len(equations) |-> JsonEquation(equations[i])])>> >>)

(* JSON.stringify(this) in the constructor, where this has the properties
   equations and fields and not yet hash *)
JsonStringify(equations, fields) ==
    JsonObject(<< <<kEquations, JsonArray([i \in 1..Len(equations) |-> JsonEquation(equations[i])])>>,
                  <<kFields, JsonObject([i \in 1..Len(fields) |->
                                            <<fields[i][1], NumberToString(fields[i][2])>>])>> >>)

(* crypto.createHash("sha256").update(text).digest("hex"), taken to be
   injective: the digest stands for the text digested *)
Sha256Hex(text) == <<"sha256">> \o text

(* Variant: the constructor does not check the boundaries *)
Dsl_NoSanity(equations, fields) ==
    LET merged == ObjectAssign(ObjectAssign(<<>>, FIELD_DEFAULTS), fields) IN
    Return([equations |-> equations, fields |-> merged,
            hash |-> Sha256Hex(JsonStringify(equations, merged))])

(* Variant: the defaults are assigned over the fields of the source *)
Dsl_DefaultsWin(equations, fields) ==
    LET merged == ObjectAssign(ObjectAssign(<<>>, fields), FIELD_DEFAULTS)
        sane == assert_sanity(merged)
    IN IF ~sane.ok THEN sane
       ELSE Return([equations |-> equations, fields |-> merged,
                    hash |-> Sha256Hex(JsonStringify(equations, merged))])

(* new Dsl(equations, fields); fields is <<>> where the code passes undefined *)
Dsl(equations, fields) ==
    LET merged == ObjectAssign(ObjectAssign(<<>>, FIELD_DEFAULTS), fields)
        sane == assert_sanity(merged)
    IN IF ~sane.ok THEN sane
       ELSE Return([equations |-> equations, fields |-> merged,
                    hash |-> Sha256Hex(JsonStringify(equations, merged))])

(* Variant: a key that was set by an earlier entry keeps that value *)
ReduceSetting_KeepsFirst(acc, setting) ==
    LET parts == Split(setting, <<"=">>)
        key == parts[1]
        value == Join(Tail(parts), <<"=">>)
    IN IF HasKey(FIELD_DEFAULTS, key)
       THEN IF value = <<>> THEN Throw("Field must have a value", key)
            ELSE LET s == ParseInt(value) IN
                 IF s.nan THEN Throw("Field must have an integer value", key)
                 ELSE IF HasKey(acc, key) THEN Return(acc)
                 ELSE Return(Put(acc, key, s.n))
       ELSE Throw("Unrecognised field", key)

(* Variant: an entry whose key is not a field is passed over *)
ReduceSetting_SkipsUnknown(acc, setting) ==
    LET parts == Split(setting, <<"=">>)
        key == parts[1]
        value == Join(Tail(parts), <<"=">>)
    IN IF HasKey(FIELD_DEFAULTS, key)
       THEN IF value = <<>> THEN Throw("Field must have a value", key)
            ELSE LET s == ParseInt(value) IN
                 IF s.nan THEN Throw("Field must have an integer value", key)
                 ELSE Return(Put(acc, key, s.n))
       ELSE Return(acc)

(* One step of the reduce over the settings: the entry `setting` is added to
   the object `acc` *)
ReduceSetting(acc, setting) ==
    LET parts == Split(setting, <<"=">>)
        key == parts[1]
        value == Join(Tail(parts), <<"=">>)
    IN IF HasKey(FIELD_DEFAULTS, key)
       THEN IF value = <<>> THEN Throw("Field must have a value", key)
            ELSE \* every default is a number
                 LET s == ParseInt(value) IN
                 IF s.nan THEN Throw("Field must have an integer value", key)
                 ELSE Return(Put(acc, key, s.n))
       ELSE Throw("Unrecognised field", key)

RECURSIVE ReduceSettings(_, _)
ReduceSettings(entries, acc) ==
    IF entries = <<>> THEN Return(acc)
    ELSE LET r == ReduceSetting(acc, entries[1]) IN
         IF r.ok THEN ReduceSettings(Tail(entries), r.val) ELSE r

(* The settings segment: split on runs of ; and newline, trimmed, the empty
   entries dropped *)
SettingEntries(segment) ==
    LET parts == SplitRuns(segment, {";", "\n"}) IN
    FilterBoolean([i \in 1..Len(parts) |-> Trim(parts[i])])

(* Variant: a restriction fragment replaces the restriction before it *)
ClassifySegment_ReplacesRestriction(equation, segment) ==
    LET segmentUpperCase == ToUpperCase(segment) IN
    IF segmentUpperCase \in EquationStyle
    THEN IF ~HasKey(equation, kStyle) THEN Return(Put(equation, kStyle, segmentUpperCase))
         ELSE Throw("Duplicate style identifiers detected",
                    Get(equation, kStyle) \o <<",">> \o segmentUpperCase)
    ELSE IF segmentUpperCase \in EquationColor \/ isHexColor(segment)
    THEN IF ~HasKey(equation, kColor)
         THEN IF isHexColor(segment) THEN Return(Put(equation, kColor, segment))
              ELSE Return(Put(equation, kColor, segmentUpperCase))
         ELSE Throw("Duplicate color identifiers detected",
                    Get(equation, kColor) \o <<",">> \o segmentUpperCase)
    ELSE LET banned == assert_notbanned(segment, "graph configuration") IN
         IF ~banned.ok THEN banned
         ELSE Return(Put(equation, kRestriction, <<"{">> \o segment \o <<"}">>))

(* Variant: the segment is compared with the constants as it is written *)
ClassifySegment_CaseSensitive(equation, segment) ==
    IF segment \in EquationStyle
    THEN IF ~HasKey(equation, kStyle) THEN Return(Put(equation, kStyle, segment))
         ELSE Throw("Duplicate style identifiers detected",
                    Get(equation, kStyle) \o <<",">> \o segment)
    ELSE IF segment \in EquationColor \/ isHexColor(segment)
    THEN IF ~HasKey(equation, kColor) THEN Return(Put(equation, kColor, segment))
         ELSE Throw("Duplicate color identifiers detected",
                    Get(equation, kColor) \o <<",">> \o segment)
    ELSE LET banned == assert_notbanned(segment, "graph configuration") IN
         IF ~banned.ok THEN banned
         ELSE LET restriction == IF HasKey(equation, kRestriction)
                                 THEN Get(equation, kRestriction) ELSE <<>>
              IN Return(Put(equation, kRestriction, restriction \o <<"{">> \o segment \o <<"}">>))

(* Variant: a second style or color token replaces the first *)
ClassifySegment_Overwrites(equation, segment) ==
    LET segmentUpperCase == ToUpperCase(segment) IN
    IF segmentUpperCase \in EquationStyle
    THEN Return(Put(equation, kStyle, segmentUpperCase))
    ELSE IF segmentUpperCase \in EquationColor \/ isHexColor(segment)
    THEN IF isHexColor(segment) THEN Return(Put(equation, kColor, segment))
         ELSE Return(Put(equation, kColor, segmentUpperCase))
    ELSE LET banned == assert_notbanned(segment, "graph configuration") IN
         IF ~banned.ok THEN banned
         ELSE LET restriction == IF HasKey(equation, kRestriction)
                                 THEN Get(equation, kRestriction) ELSE <<>>
              IN Return(Put(equation, kRestriction, restriction \o <<"{">> \o segment \o <<"}">>))

(* The body of the loop over the modifier segments of an equation *)
ClassifySegment(equation, segment) ==
    LET segmentUpperCase == ToUpperCase(segment) IN
    IF segmentUpperCase \in EquationStyle
    THEN IF ~HasKey(equation, kStyle) THEN Return(Put(equation, kStyle, segmentUpperCase))
         ELSE Throw("Duplicate style identifiers detected",
                    Get(equation, kStyle) \o <<",">> \o segmentUpperCase)
    ELSE IF segmentUpperCase \in EquationColor \/ isHexColor(segment)
    THEN IF ~HasKey(equation, kColor)
         THEN IF isHexColor(segment) THEN Return(Put(equation, kColor, segment))
              ELSE Return(Put(equation, kColor, segmentUpperCase))
         ELSE Throw("Duplicate color identifiers detected",
                    Get(equation, kColor) \o <<",">> \o segmentUpperCase)
    ELSE LET banned == assert_notbanned(segment, "graph configuration") IN
         IF ~banned.ok THEN banned
         ELSE LET restriction == IF HasKey(equation, kRestriction)
                                 THEN Get(equation, kRestriction) ELSE <<>>
              IN Return(Put(equation, kRestriction, restriction \o <<"{">> \o segment \o <<"}">>))

RECURSIVE ClassifySegments(_, _)
ClassifySegments(equation, segments) ==
    IF segments = <<>> THEN Return(equation)
    ELSE LET r == ClassifySegment(equation, segments[1]) IN
         IF r.ok THEN ClassifySegments(r.val, Tail(segments)) ELSE r

(* The callback of equations.map: one body line into one equation object *)
ProcessEquation(eq) ==
    LET segments == Split(eq, <<"|">>)
        equation == << <<kEquation, segments[1]>> >>
        banned == assert_notbanned(segments[1], "graph equation")
    IN IF ~banned.ok THEN banned ELSE ClassifySegments(equation, Tail(segments))

RECURSIVE ProcessEquations(_)
ProcessEquations(equations) ==
    IF equations = <<>> THEN Return(<<>>)
    ELSE LET r == ProcessEquation(equations[1]) IN
         IF ~r.ok THEN r
         ELSE LET rest == ProcessEquations(Tail(equations)) IN
              IF rest.ok THEN Return(<<r.val>> \o rest.val) ELSE rest

(* Variant: the empty lines are kept *)
Lines_KeepsEmpty(segment) == Split(segment, <<"\n">>)

(* split[i].split("\n").filter(Boolean) *)
Lines(segment) == FilterBoolean(Split(segment, <<"\n">>))

(* Variant: segments after the second are ignored *)
parse_IgnoresExtraSegments(text) ==
    LET split == Split(text, <<"-", "-", "-">>) IN
    LET fields == IF Len(split) >= 2
                  THEN ReduceSettings(SettingEntries(split[1]), <<>>)
                  ELSE Return(<<>>)
    IN IF ~fields.ok THEN fields
       ELSE LET processed == ProcessEquations(Lines(split[IF Len(split) >= 2 THEN 2 ELSE 1])) IN
            IF ~processed.ok THEN processed
            ELSE Dsl(processed.val, fields.val)

(* Dsl.parse(source) *)
parse(text) ==
    LET split == Split(text, <<"-", "-", "-">>) IN
    IF Len(split) > 2 THEN Throw("Too many segments", <<>>)
    ELSE LET fields == IF Len(split) = 2
                       THEN ReduceSettings(SettingEntries(split[1]), <<>>)
                       ELSE Return(<<>>)
         IN IF ~fields.ok THEN fields
            ELSE LET processed == ProcessEquations(Lines(split[Len(split)])) IN
                 IF ~processed.ok THEN processed
                 ELSE Dsl(processed.val, fields.val)

----------------------------------------------------------------------------
(* Renderer.render: the page written into the iframe *)

(* s.replace(pat, rep) for a string pat: the first occurrence only *)
Replace(s, pat, rep) ==
    LET j == IndexOfFrom(s, pat, 1) IN
    IF j = 0 THEN s ELSE SubSeq(s, 1, j - 1) \o rep \o Slice(s, j + Len(pat))

(* s.replaceAll(pat, rep) for a string pat *)
ReplaceAll(s, pat, rep) == Join(Split(s, pat), rep)

(* The restriction as it is written after the expression: braces escaped
   with two backslashes, the comparison signs written as commands *)
RestrictionLatex(equation) ==
    LET r0 == IF HasKey(equation, kRestriction) THEN Get(equation, kRestriction) ELSE <<>>
        r1 == ReplaceAll(r0, <<"{">>, <<"\\", "\\", "{">>)
        r2 == ReplaceAll(r1, <<"}">>, <<"\\", "\\", "}">>)
        r3 == ReplaceAll(r2, <<"<", "=">>, <<"\\", "\\", "l", "e", "q", " ">>)
        r4 == ReplaceAll(r3, <<">", "=">>, <<"\\", "\\", "g", "e", "q", " ">>)
        r5 == ReplaceAll(r4, <<"<">>, <<"\\", "\\", "l", "e", " ">>)
    IN ReplaceAll(r5, <<">">>, <<"\\", "\\", "g", "e", " ">>)

(* latex: "${equation.equation.replace("\\", "\\\\")}${restriction...}" *)
Latex(equation) ==
    <<"\"">> \o Replace(Get(equation, kEquation), <<"\\">>, <<"\\", "\\">>)
        \o RestrictionLatex(equation) \o <<"\"">>

LineStyles == {<<"S", "O", "L", "I", "D">>, <<"D", "A", "S", "H", "E", "D">>, <<"D", "O", "T", "T", "E", "D">>}

PointStyles == {<<"P", "O", "I", "N", "T">>, <<"O", "P", "E", "N">>, <<"C", "R", "O", "S", "S">>}

(* The style property of the command, if the equation has a style *)
StyleProperty(equation) ==
    IF HasKey(equation, kStyle)
    THEN IF Get(equation, kStyle) \in LineStyles
         THEN << <<"lineStyle", <<"D", "e", "s", "m", "o", "s", ".", "S", "t", "y", "l", "e", "s", ".">> \o Get(equation, kStyle)>> >>
         ELSE IF Get(equation, kStyle) \in PointStyles
         THEN << <<"pointStyle", <<"D", "e", "s", "m", "o", "s", ".", "S", "t", "y", "l", "e", "s", ".">> \o Get(equation, kStyle)>> >>
         ELSE <<>>
    ELSE <<>>

(* The color property of the command, if the equation has a color *)
ColorProperty(equation) ==
    IF HasKey(equation, kColor)
    THEN IF isHexColor(Get(equation, kColor))
         THEN << <<"color", <<"\"">> \o Get(equation, kColor) \o <<"\"">> >> >>
         ELSE << <<"color", <<"D", "e", "s", "m", "o", "s", ".", "C", "o", "l", "o", "r", "s", ".">> \o Get(equation, kColor)>> >>
    ELSE <<>>

(* calculator.setExpression({...}) for one equation: the properties of the
   object it is given, each with its value as the page has it *)
SetExpression(equation) ==
    << <<"latex", Latex(equation)>> >> \o StyleProperty(equation) \o ColorProperty(equation)

(* Variant: the commands are written last equation first *)
Page_Reversed(args, h) ==
    [width |-> NumberToString(Get(args.fields, kWidth)),
     height |-> NumberToString(Get(args.fields, kHeight)),
     bounds |-> << <<"left", NumberToString(Get(args.fields, kLeft))>>,
                   <<"right", NumberToString(Get(args.fields, kRight))>>,
                   <<"top", NumberToString(Get(args.fields, kTop))>>,
                   <<"bottom", NumberToString(Get(args.fields, kBottom))>> >>,
     expressions |-> [e \in 1..Len(args.equations) |->
                         SetExpression(args.equations[Len(args.equations) + 1 - e])],
     hash |-> h]

(* html_src: the size of the calculator's div, the object given to
   calculator.setMathBounds, the setExpression commands in the order of
   expressions.join(""), and the hash the page's messages carry *)
Page(args, h) ==
    [width |-> NumberToString(Get(args.fields, kWidth)),
     height |-> NumberToString(Get(args.fields, kHeight)),
     bounds |-> << <<"left", NumberToString(Get(args.fields, kLeft))>>,
                   <<"right", NumberToString(Get(args.fields, kRight))>>,
                   <<"top", NumberToString(Get(args.fields, kTop))>>,
                   <<"bottom", NumberToString(Get(args.fields, kBottom))>> >>,
     expressions |-> [e \in 1..Len(args.equations) |-> SetExpression(args.equations[e])],
     hash |-> h]

(* No page: the call has not come to build one *)
NoDoc == [width |-> <<>>, height |-> <<>>, bounds |-> <<>>, expressions |-> <<>>,
          hash |-> "none"]

----------------------------------------------------------------------------
(* The sources the model parses *)

MaxMods == 2

MaxEntries == 2

MaxSeps == 2

MaxLines == 2

(* The two calls of Dsl.parse the model follows *)
Calls == 1..2

SeqsUpTo(S, n) == UNION {[1..k -> S] : k \in 0..n}

Separator == <<"-", "-", "-">>

(* Expressions: y=x and the empty text *)
Expressions == {<<"y", "=", "x">>, <<>>}

(* Modifier segments: SOLID, dashed, RED, #Ab1, x>0, y<1, and one holding a
   backtick *)
ModTokens == {<<"S", "O", "L", "I", "D">>, <<"d", "a", "s", "h", "e", "d">>, <<"R", "E", "D">>,
              <<"#", "A", "b", "1">>, <<"x", ">", "0">>, <<"y", "<", "1">>, <<"a", Backtick>>}

(* One body line: an expression and up to MaxMods modifiers *)
EquationSources ==
    {Join(<<e>> \o m, <<"|">>) : e \in Expressions, m \in SeqsUpTo(ModTokens, MaxMods)}

(* Entries of a settings block: left=5, left=15, right=-20, right=10 (the
   default), width=10 and a newline, top=, foo=1, bottom=9 between blanks,
   top=12abc, top=x *)
SettingTexts ==
    {<<"l", "e", "f", "t", "=", "5">>, <<"l", "e", "f", "t", "=", "1", "5">>,
     <<"r", "i", "g", "h", "t", "=", "-", "2", "0">>, <<"r", "i", "g", "h", "t", "=", "1", "0">>,
     <<"w", "i", "d", "t", "h", "=", "1", "0", "\n">>, <<"t", "o", "p", "=">>,
     <<"f", "o", "o", "=", "1">>, <<" ", "b", "o", "t", "t", "o", "m", "=", "9", " ">>,
     <<"t", "o", "p", "=", "1", "2", "a", "b", "c">>, <<"t", "o", "p", "=", "x">>}

(* A settings block of up to MaxEntries entries, and the body y=x *)
SettingsSources ==
    {Join(es, <<";">>) \o Separator \o <<"y", "=", "x">> :
        es \in SeqsUpTo(SettingTexts, MaxEntries)}

SegmentTexts == {<<>>, <<"y", "=", "x">>, <<"l", "e", "f", "t", "=", "5">>}

(* Up to MaxSeps separators between segments *)
SegmentSources ==
    UNION {{Join(ss, Separator) : ss \in [1..k -> SegmentTexts]} : k \in 1..(MaxSeps + 1)}

(* Body lines: the empty line, y=x, x=1|RED, y=x|SOLID, y="x *)
LineTexts == {<<>>, <<"y", "=", "x">>, <<"x", "=", "1", "|", "R", "E", "D">>,
              <<"y", "=", "x", "|", "S", "O", "L", "I", "D">>, <<"y", "=", "\"", "x">>}

(* A body of up to MaxLines lines *)
BodySources == {Join(ls, <<"\n">>) : ls \in SeqsUpTo(LineTexts, MaxLines)}

(* Sources with two things wrong: left=15---y=x|SOLID|dashed,
   foo=1---y=x|RED|#Ab1, y="x|SOLID|SOLID, and the two lines y=x|SOLID|SOLID
   and y=x|RED|RED *)
MixedSources ==
    {<<"l", "e", "f", "t", "=", "1", "5", "-", "-", "-", "y", "=", "x", "|", "S", "O", "L", "I", "D", "|", "d", "a", "s", "h", "e", "d">>,
     <<"f", "o", "o", "=", "1", "-", "-", "-", "y", "=", "x", "|", "R", "E", "D", "|", "#", "A", "b", "1">>,
     <<"y", "=", "\"", "x", "|", "S", "O", "L", "I", "D", "|", "S", "O", "L", "I", "D">>,
     <<"y", "=", "x", "|", "S", "O", "L", "I", "D", "|", "S", "O", "L", "I", "D", "\n", "y", "=", "x", "|", "R", "E", "D", "|", "R", "E", "D">>}

(* Settings blocks with the body y=x: bottom=1.5, a key followed by a blank
   (left =5), entries without an equals sign (foo, left), a value with an
   equals sign (width=1=2), two keys (height=20;width=10), a key given twice
   (left=15;left=5), blanks before the value (top= 12) *)
FieldSources ==
    {<<"b", "o", "t", "t", "o", "m", "=", "1", ".", "5", "-", "-", "-", "y", "=", "x">>,
     <<"l", "e", "f", "t", " ", "=", "5", "-", "-", "-", "y", "=", "x">>,
     <<"f", "o", "o", "-", "-", "-", "y", "=", "x">>,
     <<"l", "e", "f", "t", "-", "-", "-", "y", "=", "x">>,
     <<"w", "i", "d", "t", "h", "=", "1", "=", "2", "-", "-", "-", "y", "=", "x">>,
     <<"h", "e", "i", "g", "h", "t", "=", "2", "0", ";", "w", "i", "d", "t", "h", "=", "1", "0", "-", "-", "-", "y", "=", "x">>,
     <<"l", "e", "f", "t", "=", "1", "5", ";", "l", "e", "f", "t", "=", "5", "-", "-", "-", "y", "=", "x">>,
     <<"t", "o", "p", "=", " ", "1", "2", "-", "-", "-", "y", "=", "x">>}

(* Lines whose modifiers are written in other ways: red, Blue|dotted, a lone
   #, #a-b, SOLIDx, an empty modifier, open|purple, and four modifiers
   x>0|POINT|y<1|green *)
ModifierSources ==
    {<<"y", "=", "x", "|", "r", "e", "d">>,
     <<"y", "=", "x", "|", "B", "l", "u", "e", "|", "d", "o", "t", "t", "e", "d">>,
     <<"y", "=", "x", "|", "#">>,
     <<"y", "=", "x", "|", "#", "a", "-", "b">>,
     <<"y", "=", "x", "|", "S", "O", "L", "I", "D", "x">>,
     <<"y", "=", "x", "|">>,
     <<"y", "=", "x", "|", "o", "p", "e", "n", "|", "p", "u", "r", "p", "l", "e">>,
     <<"y", "=", "x", "|", "x", ">", "0", "|", "P", "O", "I", "N", "T", "|", "y", "<", "1", "|", "g", "r", "e", "e", "n">>}

Sources ==
    EquationSources \cup SettingsSources \cup SegmentSources \cup BodySources
        \cup MixedSources \cup FieldSources \cup ModifierSources

(* Sources a parsed source is compared with *)
Probes ==
    {<<>>,
     <<"y", "=", "x">>,
     <<"y", "=", "x", "|", "S", "O", "L", "I", "D", "|", "R", "E", "D">>,
     <<"y", "=", "x", "|", "R", "E", "D", "|", "S", "O", "L", "I", "D">>,
     <<"y", "=", "x", "|", "x", ">", "0", "|", "R", "E", "D">>,
     <<"y", "=", "x", "|", "R", "E", "D", "|", "x", ">", "0">>,
     <<"y", "=", "x", "|", "#", "A", "b", "1">>,
     <<"y", "=", "x", "|", "#", "A", "B", "1">>,
     <<"y", "=", "x", "|", "x", ">", "0">>,
     <<"y", "=", "x", "|", "{", "x", ">", "0", "}">>,
     <<"x", "=", "1", "|", "R", "E", "D", "\n", "y", "=", "x">>,
     <<"y", "=", "x", "\n", "x", "=", "1", "|", "R", "E", "D">>,
     <<"l", "e", "f", "t", "=", "5", "-", "-", "-", "y", "=", "x">>,
     <<"l", "e", "f", "t", "=", "5", ";", "r", "i", "g", "h", "t", "=", "1", "0", "-", "-", "-", "y", "=", "x">>,
     <<"r", "i", "g", "h", "t", "=", "1", "0", ";", "l", "e", "f", "t", "=", "5", "-", "-", "-", "y", "=", "x">>,
     <<"w", "i", "d", "t", "h", "=", "1", "0", "-", "-", "-", "y", "=", "x">>}

NoSource == <<"(none)">>

NotParsed ==
    [ok |-> FALSE, val |-> <<>>,
     err |-> [name |-> "(pending)", message |-> "", detail |-> <<>>]]

----------------------------------------------------------------------------
(* Paths. A path is the string of its characters; the fingerprint of a
   request stands in a file name as one character. *)

(* settings.cache.directory as the settings tab sets it: unset, or a path
   relative to the vault *)
Directories == {<<>>, <<"g", "r", "a", "p", "h", "s">>}

(* Further values the directory field takes: an absolute path, and a relative
   path that leaves the vault *)
ConfiguredDirectories == Directories \cup {<<"/", "v", "a", "r", "/", "c", "a", "c", "h", "e">>, <<".", ".", "/", "s", "h", "a", "r", "e", "d">>}

(* plugin.app.vault.adapter.basePath *)
VaultRoot == <<"/", "v", "a", "u", "l", "t">>

(* os.tmpdir() *)
TmpDir == <<"/", "t", "m", "p">>

(* path.isAbsolute *)
IsAbsolute(p) == Len(p) > 0 /\ p[1] = "/"

(* The segments path.normalize keeps: empty and "." segments are dropped, ".."
   removes the segment before it, and is kept where there is none to remove
   only in a relative path *)
RECURSIVE NormalizeSegments(_, _, _)
NormalizeSegments(segs, res, allowAboveRoot) ==
    IF segs = <<>> THEN res
    ELSE LET seg == Head(segs)
             rest == Tail(segs)
         IN
         IF seg = <<>> \/ seg = <<".">> THEN NormalizeSegments(rest, res, allowAboveRoot)
         ELSE IF seg = <<".", ".">>
              THEN IF res # <<>> /\ res[Len(res)] # <<".", ".">>
                   THEN NormalizeSegments(rest, SubSeq(res, 1, Len(res) - 1), allowAboveRoot)
                   ELSE IF allowAboveRoot
                        THEN NormalizeSegments(rest, Append(res, seg), allowAboveRoot)
                        ELSE NormalizeSegments(rest, res, allowAboveRoot)
              ELSE NormalizeSegments(rest, Append(res, seg), allowAboveRoot)

(* path.normalize *)
Normalize(p) ==
    IF p = <<>> THEN <<".">>
    ELSE LET isAbsolute == IsAbsolute(p)
             trailingSeparator == p[Len(p)] = "/"
             body == Join(NormalizeSegments(Split(p, <<"/">>), <<>>, ~isAbsolute), <<"/">>)
         IN
         IF body = <<>>
         THEN IF isAbsolute THEN <<"/">> ELSE IF trailingSeparator THEN <<".", "/">> ELSE <<".">>
         ELSE (IF isAbsolute THEN <<"/">> ELSE <<>>) \o body
              \o (IF trailingSeparator THEN <<"/">> ELSE <<>>)

(* path.join(a, b) *)
PathJoin(a, b) ==
    IF a = <<>> /\ b = <<>> THEN <<".">>
    ELSE IF a = <<>> THEN Normalize(b)
    ELSE IF b = <<>> THEN Normalize(a)
    ELSE Normalize(a \o <<"/">> \o b)

(* Variant: every configured directory is joined onto the vault root *)
CacheDir_JoinsAlways(directory) ==
    IF directory # <<>>
    THEN PathJoin(VaultRoot, directory)
    ELSE TmpDir

(* cache_dir of Renderer.render *)
CacheDir(directory) ==
    IF directory # <<>>
    THEN IF IsAbsolute(directory) THEN directory ELSE PathJoin(VaultRoot, directory)
    ELSE TmpDir

AllDirs == {CacheDir(d) : d \in ConfiguredDirectories}

(* `desmos-graph-${hash}.png` *)
FileName(h) == <<"d", "e", "s", "m", "o", "s", "-", "g", "r", "a", "p", "h", "-">> \o <<h>> \o <<".", "p", "n", "g">>

(* cache_target: path.join(cache_dir, `desmos-graph-${hash}.png`) *)
CacheTarget(dir, h) == PathJoin(dir, FileName(h))

Targets == {CacheTarget(d, h) : d \in AllDirs, h \in Hashes}

----------------------------------------------------------------------------
(* State after Desmos.onload: an empty graph_cache, the default settings, no
   request made. The temporary directory exists; the directory the settings
   tab can name has not been created. *)
Init ==
    /\ settings = DEFAULT_SETTINGS_STATIC
    /\ graph_cache = [h \in Hashes |-> NoData]
    /\ dirs = {TmpDir}
    /\ files = [t \in Targets |-> NoFile]
    /\ pc = [r \in Reqs |-> "idle"]
    /\ hash = [r \in Reqs |-> "none"]
    /\ el = [r \in Reqs |-> <<>>]
    /\ resolved = {}
    /\ listeners = {}
    /\ cache_dir = [r \in Reqs |-> NoDir]
    /\ frame = [r \in Reqs |-> "none"]
    /\ msgs = <<>>
    /\ store = [r \in Reqs |-> NoWrite]
    /\ notices = [r \in Reqs |-> {}]
    /\ source = [i \in Calls |-> NoSource]
    /\ parsed = [i \in Calls |-> NotParsed]
    /\ srcdoc = [i \in Calls |-> NoDoc]
    /\ skip_debounce = FALSE
    /\ debounce = DEFAULT_DEBOUNCE
    /\ pending = NoPending
    /\ route = [i \in Calls |-> "none"]

----------------------------------------------------------------------------
(* Settings tab: the onChange callbacks of display(). The location dropdown is
   shown only while the cache is enabled, the directory field only while the
   location is Filesystem. *)
SetEnabled(v) ==
    /\ settings' = [settings EXCEPT !.enabled = v]
    /\ UNCHANGED <<graph_cache, dirs, files, pc, hash, el, resolved, listeners,
                   cache_dir, frame, msgs, store, notices, source, parsed, srcdoc, debouncer>>

SetLocation(l) ==
    /\ settings.enabled
    /\ settings' = [settings EXCEPT !.location = l]
    /\ UNCHANGED <<graph_cache, dirs, files, pc, hash, el, resolved, listeners,
                   cache_dir, frame, msgs, store, notices, source, parsed, srcdoc, debouncer>>

SetDirectory(d) ==
    /\ settings.enabled
    /\ settings.location = "Filesystem"
    /\ settings' = [settings EXCEPT !.directory = d]
    /\ UNCHANGED <<graph_cache, dirs, files, pc, hash, el, resolved, listeners,
                   cache_dir, frame, msgs, store, notices, source, parsed, srcdoc, debouncer>>

----------------------------------------------------------------------------
(* Renderer.render up to its return: the cache lookup, and on a miss the
   iframe and the message listener. *)

(* `hash in plugin.graph_cache` *)
InMemoryCache(h) == graph_cache[h] # NoData

(* fs.existsSync(cache_target) *)
ExistsSync(target) == files[target] # NoFile

(* Variant: the in-memory entry is not consulted *)
LookupBranch_IgnoresMemory(c, h, target) ==
    IF CacheTruthy(c) /\ c.location = "Filesystem" /\ ExistsSync(target) THEN "file"
    ELSE "render"

(* Variant: a request for a fingerprint that is already being rendered is
   coalesced with the request in flight instead of rendering itself *)
LookupBranch_Coalesces(c, h, target) ==
    IF \E q \in listeners : hash[q] = h THEN "file"
    ELSE IF CacheTruthy(c) /\ c.location = "Memory" /\ InMemoryCache(h) THEN "memory"
    ELSE IF CacheTruthy(c) /\ c.location = "Filesystem" /\ ExistsSync(target) THEN "file"
    ELSE "render"

(* The branch render takes: "memory" and "file" return before the iframe is built *)
LookupBranch(c, h, target) ==
    IF CacheTruthy(c) /\ c.location = "Memory" /\ InMemoryCache(h) THEN "memory"
    ELSE IF CacheTruthy(c) /\ c.location = "Filesystem" /\ ExistsSync(target) THEN "file"
    ELSE "render"

(* The branch Renderer.render takes for the hash h under the settings as they are *)
Branch(h) == LookupBranch(settings, h, CacheTarget(CacheDir(settings.directory), h))

(* Renderer.render(args, settings, el, plugin) for the request r, whose
   args.hash is h, up to the return of the promise's executor *)
RenderCall(r, h) ==
    /\ hash' = [hash EXCEPT ![r] = h]
    /\ cache_dir' = [cache_dir EXCEPT ![r] = CacheDir(settings.directory)]
    /\ LET branch == Branch(h) IN
       /\ pc' = [pc EXCEPT ![r] = CASE branch = "memory" -> "hit"
                                    [] branch = "file" -> "reading"
                                    [] OTHER -> "waiting"]
       /\ el' = [el EXCEPT ![r] = CASE branch = "memory" -> Append(@, ImgNode(graph_cache[h]))
                                    [] branch = "file" -> @
                                    [] OTHER -> Append(@, IframeNode(h))]
       /\ frame' = [frame EXCEPT ![r] = IF branch = "render" THEN "live" ELSE @]
       /\ listeners' = IF branch = "render" THEN listeners \cup {r} ELSE listeners

Render(r, h) ==
    /\ pc[r] = "idle"
    /\ \A q \in Reqs : q < r => pc[q] # "idle"   \* requests are numbered as they are made
    /\ r = 1 => h = "h1"                          \* and fingerprints named as they appear
    /\ RenderCall(r, h)
    /\ UNCHANGED <<settings, graph_cache, dirs, files, resolved, msgs, store, notices,
                   source, parsed, srcdoc, debouncer>>

(* fs.promises.readFile(cache_target).then(...) of a filesystem hit *)
ReadDone(r) ==
    /\ pc[r] = "reading"
    /\ ExistsSync(CacheTarget(cache_dir[r], hash[r]))
    /\ el' = [el EXCEPT ![r] =
                 Append(@, ImgNode(ReadAsDataUri(files[CacheTarget(cache_dir[r], hash[r])])))]
    /\ pc' = [pc EXCEPT ![r] = "hit"]
    /\ UNCHANGED <<settings, graph_cache, dirs, files, hash, resolved, listeners,
                   cache_dir, frame, msgs, store, notices, source, parsed, srcdoc, debouncer>>

(* The readFile promise rejects: render attached no rejection handler *)
ReadFail(r) ==
    /\ pc[r] = "reading"
    /\ pc' = [pc EXCEPT ![r] = "readfailed"]
    /\ UNCHANGED <<settings, graph_cache, dirs, files, hash, el, resolved, listeners,
                   cache_dir, frame, msgs, store, notices, source, parsed, srcdoc, debouncer>>

----------------------------------------------------------------------------
(* The script of the iframe: the expressionAnalysis observer posts an error
   message for an expression in error, the asyncScreenshot callback posts the
   rendered image once. Both carry the hash of the request that built the
   iframe; a srcdoc iframe has its parent's origin. *)

ErrorMsg(h) ==
    [origin |-> AppOrigin, t |-> GraphTag, d |-> "error", data |-> <<ErrorMessage>>, hash |-> h]

RenderMsg(h, bytes) ==
    [origin |-> AppOrigin, t |-> GraphTag, d |-> "render", data |-> DataUri(bytes), hash |-> h]

PostError(r) ==
    /\ frame[r] = "live"
    /\ Len(msgs) < MaxQueue
    /\ msgs' = Append(msgs, ErrorMsg(hash[r]))
    /\ UNCHANGED <<settings, graph_cache, dirs, files, pc, hash, el, resolved,
                   listeners, cache_dir, frame, store, notices, source, parsed, srcdoc, debouncer>>

PostScreenshot(r, bytes) ==
    /\ frame[r] = "live"
    /\ r = 1 => bytes = "pngA"                    \* images are named as they appear
    /\ Len(msgs) < MaxQueue
    /\ msgs' = Append(msgs, RenderMsg(hash[r], bytes))
    /\ frame' = [frame EXCEPT ![r] = "shot"]
    /\ UNCHANGED <<settings, graph_cache, dirs, files, pc, hash, el, resolved,
                   listeners, cache_dir, store, notices, source, parsed, srcdoc, debouncer>>

----------------------------------------------------------------------------
(* The message handler of Renderer.render *)

(* Variant: the guard does not compare the fingerprint *)
Matches_AnyHash(m, h) == m.origin = AppOrigin /\ m.t = GraphTag

(* The guard of the handler, for the request whose hash is h *)
Matches(m, h) == m.origin = AppOrigin /\ m.t = GraphTag /\ m.hash = h

(* The output element after a matching message: el.empty(), then the error
   box for "error", the image for "render" *)
HandlerEl(m) ==
    IF m.d = "error" THEN <<ErrorNode(m.data[1])>>
    ELSE IF m.d = "render" THEN <<ImgNode(m.data)>>
    ELSE <<>>

(* Variant: the handler stays registered after a success *)
RemovesListener_Never(m) == FALSE

(* window.removeEventListener("message", handler) is in the "render" branch *)
RemovesListener(m) == m.d = "render"

(* Variant: the promise is settled on either outcome *)
Resolves_AnyOutcome(m) == m.d \in {"render", "error"}

(* resolve() is in the "render" branch *)
Resolves(m) == m.d = "render"

(* Variant: the file write is started without looking for the directory *)
StoreBranch_NoDirCheck(c, m, dir) ==
    IF m.d = "render" /\ CacheTruthy(c)
    THEN IF c.location = "Memory" THEN "memory"
         ELSE IF c.location = "Filesystem" THEN "write"
              ELSE "none"
    ELSE "none"

(* The cache branch the handler takes for a matching message; dir is the
   request's cache_dir *)
StoreBranch(c, m, dir) ==
    IF m.d = "render" /\ CacheTruthy(c)
    THEN IF c.location = "Memory" THEN "memory"
         ELSE IF c.location = "Filesystem"
              THEN IF dir \in dirs THEN "write" ELSE "nodir"
              ELSE "none"
    ELSE "none"

(* The request's position after its handler ran on a matching message *)
HandlerPc(m, old) ==
    IF m.d = "error" THEN "errored" ELSE IF m.d = "render" THEN "done" ELSE old

(* Variant: the first handler that takes a message keeps it from the others *)
Listening_FirstOnly(m) ==
    {r \in listeners : Matches(m, hash[r])
                        /\ \A q \in listeners : Matches(m, hash[q]) => r <= q}

(* The registered handlers whose guard the message passes *)
Listening(m) == {r \in listeners : Matches(m, hash[r])}

(* Variant: the insert replaces the map by one holding the new entry only *)
MemoryInsert_Resetting(cache, h, data) == [k \in Hashes |-> IF k = h THEN data ELSE NoData]

(* plugin.graph_cache[hash] = data *)
MemoryInsert(cache, h, data) == [cache EXCEPT ![h] = data]

(* Dispatch of the message event m to every registered handler *)
Dispatch(m) ==
    LET hit == Listening(m)
        branch(r) == StoreBranch(settings, m, cache_dir[r])
    IN
    /\ el' = [r \in Reqs |-> IF r \in hit THEN HandlerEl(m) ELSE el[r]]
    /\ frame' = [r \in Reqs |-> IF r \in hit THEN "gone" ELSE frame[r]]
    /\ pc' = [r \in Reqs |-> IF r \in hit THEN HandlerPc(m, pc[r]) ELSE pc[r]]
    /\ listeners' = listeners \ {r \in hit : RemovesListener(m)}
    /\ resolved' = resolved \cup {r \in hit : Resolves(m)}
    /\ graph_cache' = IF \E r \in hit : branch(r) = "memory"
                      THEN MemoryInsert(graph_cache, m.hash, m.data)
                      ELSE graph_cache
    /\ store' = [r \in Reqs |->
                   IF r \in hit /\ branch(r) = "memory" THEN [st |-> "memory", data |-> m.data]
                   ELSE IF r \in hit /\ branch(r) = "write" THEN [st |-> "pending", data |-> m.data]
                   ELSE IF r \in hit /\ branch(r) = "nodir" THEN [st |-> "nodir", data |-> m.data]
                   ELSE store[r]]
    /\ notices' = [r \in Reqs |-> IF r \in hit /\ branch(r) = "nodir"
                                   THEN notices[r] \cup {"cache directory not found"}
                                   ELSE notices[r]]
    /\ UNCHANGED <<settings, dirs, files, hash, cache_dir, source, parsed, srcdoc, debouncer>>

(* The oldest message an iframe posted is dispatched *)
Deliver ==
    /\ msgs # <<>>
    /\ msgs' = Tail(msgs)
    /\ Dispatch(Head(msgs))

(* Messages the window receives from elsewhere: another origin forging a
   completion, and a message of the application that is no graph completion.
   Nothing orders them with the iframes' messages, so they are dispatched as
   they arrive. *)
ForeignMsgs ==
    {[origin |-> OtherOrigin, t |-> GraphTag, d |-> "render",
      data |-> DataUri("forged"), hash |-> h] : h \in Hashes}
    \cup {[origin |-> AppOrigin, t |-> "other", d |-> "render",
           data |-> DataUri("forged"), hash |-> h] : h \in Hashes}

ForeignMessage(m) ==
    /\ Dispatch(m)
    /\ UNCHANGED msgs

(* fs.promises.writeFile(cache_target, <data without its prefix>, "base64") *)
WriteDone(r) ==
    /\ store[r].st = "pending"
    /\ files' = [files EXCEPT ![CacheTarget(cache_dir[r], hash[r])] =
                    Base64Decode(StripPrefix(store[r].data))]
    /\ store' = [store EXCEPT ![r].st = "done"]
    /\ UNCHANGED <<settings, graph_cache, dirs, pc, hash, el, resolved, listeners,
                   cache_dir, frame, msgs, notices, source, parsed, srcdoc, debouncer>>

(* Variant: a rejected write replaces the image by the error box *)
WriteFail_Fatal(r) ==
    /\ store[r].st = "pending"
    /\ store' = [store EXCEPT ![r].st = "failed"]
    /\ notices' = [notices EXCEPT ![r] = @ \cup {"unexpected error when trying to cache graph"}]
    /\ el' = [el EXCEPT ![r] = <<ErrorNode("unexpected error when trying to cache graph")>>]
    /\ UNCHANGED <<settings, graph_cache, dirs, files, pc, hash, resolved,
                   listeners, cache_dir, frame, msgs, source, parsed, srcdoc, debouncer>>

(* The writeFile promise rejects: .catch shows a Notice *)
WriteFail(r) ==
    /\ store[r].st = "pending"
    /\ store' = [store EXCEPT ![r].st = "failed"]
    /\ notices' = [notices EXCEPT ![r] = @ \cup {"unexpected error when trying to cache graph"}]
    /\ UNCHANGED <<settings, graph_cache, dirs, files, pc, hash, el, resolved,
                   listeners, cache_dir, frame, msgs, source, parsed, srcdoc, debouncer>>

----------------------------------------------------------------------------
Next ==
    \/ \E v \in BOOLEAN : SetEnabled(v)
    \/ \E l \in CacheLocation : SetLocation(l)
    \/ \E d \in Directories : SetDirectory(d)
    \/ \E r \in Reqs, h \in Hashes : Render(r, h)
    \/ \E r \in Reqs : ReadDone(r)
    \/ \E r \in Reqs : ReadFail(r)
    \/ \E r \in Reqs : PostError(r)
    \/ \E r \in Reqs, b \in Images : PostScreenshot(r, b)
    \/ \E m \in ForeignMsgs : ForeignMessage(m)
    \/ Deliver
    \/ \E r \in Reqs : WriteDone(r)
    \/ \E r \in Reqs : WriteFail(r)

Spec == Init /\ [][Next]_vars

(* The window's event loop dispatches every message event that is queued *)
FairSpec == Spec /\ WF_vars(Deliver)

----------------------------------------------------------------------------
(* The code block processor is handed a source and calls Dsl.parse on it;
   the call returns a Dsl or throws. The model follows two calls: the first
   on any source, the second on one of the sources it is compared with.
   No request is rendered here. *)
Parse(i, text) ==
    /\ source[i] = NoSource
    /\ \A j \in Calls : j < i => source[j] # NoSource   \* calls are numbered as they are made
    /\ source' = [source EXCEPT ![i] = text]
    /\ parsed' = [parsed EXCEPT ![i] = parse(text)]
    /\ UNCHANGED <<settings, graph_cache, dirs, files, pc, hash, el, resolved,
                   listeners, cache_dir, frame, msgs, store, notices, srcdoc, debouncer>>

ParseNext ==
    \/ \E text \in Sources : Parse(1, text)
    \/ \E text \in Probes : Parse(2, text)

ParseSpec == Init /\ [][ParseNext]_vars

----------------------------------------------------------------------------
(* The render closure of onload, which the code block processor calls with
   the source of a block and its element: Dsl.parse and then Renderer.render,
   or renderError when either throws. *)

(* The sources of the requests: y=x; a settings block and three equations
   with a blank line among them; a line with a point style, a color and two
   restrictions; a line with two styles; a left bound that crosses *)
RequestSources ==
    {<<"y", "=", "x">>,
     <<"l", "e", "f", "t", "=", "-", "5", ";", "r", "i", "g", "h", "t", "=", "5", ";", "t", "o", "p", "=", "3", ";", "b", "o", "t", "t", "o", "m", "=", "-", "3", "-", "-", "-", "y", "=", "x", "|", "D", "A", "S", "H", "E", "D", "|", "R", "E", "D", "|", "x", ">", "0", "\n", "x", "=", "1", "|", "P", "O", "I", "N", "T", "|", "#", "A", "b", "1", "\n", "\n", "y", "=", "2", "|", "d", "o", "t", "t", "e", "d">>,
     <<"y", "=", "x", "|", "O", "P", "E", "N", "|", "g", "r", "e", "e", "n", "|", "y", ">", "=", "1", "|", "x", "<", "3">>,
     <<"y", "=", "x", "|", "S", "O", "L", "I", "D", "|", "D", "A", "S", "H", "E", "D">>,
     <<"l", "e", "f", "t", "=", "1", "5", "-", "-", "-", "y", "=", "x">>}

HashNames == <<"h1", "h2">>

(* The name the digest of the Dsl d has for the coordinator: the name it has
   from a call made before that returned a Dsl of the same hash, else the
   first name not in use *)
NameOf(r, d) ==
    LET returned == {q \in Calls \ {r} : parsed[q].ok}
        same == {q \in returned : parsed[q].val.hash = d.hash}
    IN IF same # {} THEN hash[Min(same)]
       ELSE HashNames[Cardinality({hash[q] : q \in returned}) + 1]

(* The render closure of onload called for the request r with a source:
   Renderer.render(Dsl.parse(source), settings, el, plugin) in its try/catch *)
Closure(r, text) ==
    /\ source' = [source EXCEPT ![r] = text]
    /\ parsed' = [parsed EXCEPT ![r] = parse(text)]
    /\ LET args == parsed'[r] IN
       IF args.ok
       THEN LET h == NameOf(r, args.val) IN
            /\ RenderCall(r, h)
            /\ srcdoc' = [srcdoc EXCEPT ![r] =
                             IF Branch(h) = "render" THEN Page(args.val, h) ELSE @]
            /\ UNCHANGED <<settings, graph_cache, dirs, files, resolved, msgs, store,
                           notices>>
       ELSE \* catch (err) { renderError(err.message, el) }
            /\ el' = [el EXCEPT ![r] = <<ErrorNode(args.err.message)>>]
            /\ pc' = [pc EXCEPT ![r] = "refused"]
            /\ UNCHANGED <<settings, graph_cache, dirs, files, hash, resolved, listeners,
                           cache_dir, frame, msgs, store, notices, srcdoc>>

(* Variant: the closure has no catch; an error of Dsl.parse leaves the
   element as it was *)
RenderClosure_NoCatch(r, text) ==
    /\ pc[r] = "idle"
    /\ \A q \in Calls : q < r => pc[q] # "idle"
    /\ source' = [source EXCEPT ![r] = text]
    /\ parsed' = [parsed EXCEPT ![r] = parse(text)]
    /\ LET args == parsed'[r] IN
       IF args.ok
       THEN LET h == NameOf(r, args.val) IN
            /\ RenderCall(r, h)
            /\ srcdoc' = [srcdoc EXCEPT ![r] =
                             IF Branch(h) = "render" THEN Page(args.val, h) ELSE @]
            /\ UNCHANGED <<settings, graph_cache, dirs, files, resolved, msgs, store,
                           notices, debouncer>>
       ELSE /\ pc' = [pc EXCEPT ![r] = "refused"]
            /\ UNCHANGED <<settings, graph_cache, dirs, files, hash, el, resolved, listeners,
                           cache_dir, frame, msgs, store, notices, srcdoc, debouncer>>

RenderClosure(r, text) ==
    /\ pc[r] = "idle"
    /\ \A q \in Calls : q < r => pc[q] # "idle"   \* requests are numbered as they are made
    /\ Closure(r, text)
    /\ UNCHANGED debouncer

ClosureNext ==
    \/ \E v \in BOOLEAN : SetEnabled(v)
    \/ \E l \in CacheLocation : SetLocation(l)
    \/ \E d \in Directories : SetDirectory(d)
    \/ \E r \in Calls, text \in RequestSources : RenderClosure(r, text)
    \/ \E r \in Reqs : ReadDone(r)
    \/ \E r \in Reqs : ReadFail(r)
    \/ \E r \in Reqs : PostError(r)
    \/ \E r \in Reqs, b \in Images : PostScreenshot(r, b)
    \/ \E m \in ForeignMsgs : ForeignMessage(m)
    \/ Deliver
    \/ \E r \in Reqs : WriteDone(r)
    \/ \E r \in Reqs : WriteFail(r)

ClosureSpec == Init /\ [][ClosureNext]_vars

----------------------------------------------------------------------------
(* The plugin with the directory field taking every kind of value, in a vault
   on a disk where the directories it can name were or were not created
   beforehand *)

DirInit ==
    /\ settings = DEFAULT_SETTINGS_STATIC
    /\ graph_cache = [h \in Hashes |-> NoData]
    /\ dirs \in {{TmpDir}, AllDirs}
    /\ files = [t \in Targets |-> NoFile]
    /\ pc = [r \in Reqs |-> "idle"]
    /\ hash = [r \in Reqs |-> "none"]
    /\ el = [r \in Reqs |-> <<>>]
    /\ resolved = {}
    /\ listeners = {}
    /\ cache_dir = [r \in Reqs |-> NoDir]
    /\ frame = [r \in Reqs |-> "none"]
    /\ msgs = <<>>
    /\ store = [r \in Reqs |-> NoWrite]
    /\ notices = [r \in Reqs |-> {}]
    /\ source = [i \in Calls |-> NoSource]
    /\ parsed = [i \in Calls |-> NotParsed]
    /\ srcdoc = [i \in Calls |-> NoDoc]
    /\ skip_debounce = FALSE
    /\ debounce = DEFAULT_DEBOUNCE
    /\ pending = NoPending
    /\ route = [i \in Calls |-> "none"]

DirNext ==
    \/ \E v \in BOOLEAN : SetEnabled(v)
    \/ \E l \in CacheLocation : SetLocation(l)
    \/ \E d \in ConfiguredDirectories : SetDirectory(d)
    \/ \E r \in Reqs, h \in Hashes : Render(r, h)
    \/ \E r \in Reqs : ReadDone(r)
    \/ \E r \in Reqs : ReadFail(r)
    \/ \E r \in Reqs : PostError(r)
    \/ \E r \in Reqs, b \in Images : PostScreenshot(r, b)
    \/ \E m \in ForeignMsgs : ForeignMessage(m)
    \/ Deliver
    \/ \E r \in Reqs : WriteDone(r)
    \/ \E r \in Reqs : WriteFail(r)

DirSpec == DirInit /\ [][DirNext]_vars

----------------------------------------------------------------------------
(* The render closure called with expressions written in LaTeX: one command,
   two commands, and commands in nested groups *)

EscapeSources ==
    {<<"y", "=", "\\", "s", "i", "n", "(", "x", ")">>,
     <<"y", "=", "\\", "s", "i", "n", "(", "\\", "p", "i", " ", "x", ")">>,
     <<"y", "=", "\\", "f", "r", "a", "c", "{", "\\", "s", "q", "r", "t", "{", "x", "}", "}", "{", "2", "}", "|", "x", ">", "0">>}

EscapeNext ==
    \/ \E v \in BOOLEAN : SetEnabled(v)
    \/ \E l \in CacheLocation : SetLocation(l)
    \/ \E d \in Directories : SetDirectory(d)
    \/ \E r \in Calls, text \in EscapeSources : RenderClosure(r, text)
    \/ \E r \in Reqs : ReadDone(r)
    \/ \E r \in Reqs : ReadFail(r)
    \/ \E r \in Reqs : PostError(r)
    \/ \E r \in Reqs, b \in Images : PostScreenshot(r, b)
    \/ \E m \in ForeignMsgs : ForeignMessage(m)
    \/ Deliver
    \/ \E r \in Reqs : WriteDone(r)
    \/ \E r \in Reqs : WriteFail(r)

EscapeSpec == Init /\ [][EscapeNext]_vars

----------------------------------------------------------------------------
(* The code block processor of onload, the layout-change event, the debounce
   field of the settings tab and the debouncer *)

(* The debounce setting in the data the plugin loads: the default, none, 0 *)
LoadedDebounces == {DEFAULT_DEBOUNCE, Undefined, [set |-> TRUE, ms |-> 0]}

(* Texts typed into the Debounce Time field *)
DebounceTexts == {<<"0">>, <<"2", "5", "0">>, <<"a", "b", "c">>, <<"-", "5">>}

DebounceSources == {<<"y", "=", "x">>, <<"l", "e", "f", "t", "=", "1", "5", "-", "-", "-", "y", "=", "x">>}

(* onChange of the Debounce Time field: parseInt(value), the default in
   place of NaN and of a negative number *)
SetDebounce(value) ==
    /\ LET val == ParseInt(value) IN
       debounce' = IF val.nan \/ val.n < 0 THEN DEFAULT_DEBOUNCE
                   ELSE [set |-> TRUE, ms |-> val.n]
    /\ UNCHANGED <<settings, graph_cache, dirs, files, pc, hash, el, resolved, listeners,
                   cache_dir, frame, msgs, store, notices, source, parsed, srcdoc,
                   skip_debounce, pending, route>>

(* The workspace's layout-change event *)
LayoutChange ==
    /\ skip_debounce' = TRUE
    /\ UNCHANGED <<settings, graph_cache, dirs, files, pc, hash, el, resolved, listeners,
                   cache_dir, frame, msgs, store, notices, source, parsed, srcdoc,
                   debounce, pending, route>>

(* this.skip_debounce || !this.settings.debounce || this.settings.debounce < 1 *)
SkipsDebounce(skip, d) == skip \/ ~d.set \/ d.ms = 0 \/ d.ms < 1

(* Variant: the processor leaves the flag as it is *)
Processor_KeepsFlag(r, text) ==
    /\ route[r] = "none"
    /\ \A q \in Calls : q < r => route[q] # "none"
    /\ IF SkipsDebounce(skip_debounce, debounce)
       THEN /\ route' = [route EXCEPT ![r] = "immediate"]
            /\ Closure(r, text)
            /\ UNCHANGED <<skip_debounce, debounce, pending>>
       ELSE /\ route' = [route EXCEPT ![r] = "debounced"]
            /\ pending' = [r |-> r, text |-> text]
            /\ UNCHANGED <<settings, graph_cache, dirs, files, pc, hash, el, resolved, listeners,
                   cache_dir, frame, msgs, store, notices, source, parsed, srcdoc,
                   skip_debounce, debounce>>

(* The markdown code block processor called for the request r: the render
   closure at once, or the debouncer, which keeps the arguments of its last
   call until its timer runs out *)
Processor(r, text) ==
    /\ route[r] = "none"
    /\ \A q \in Calls : q < r => route[q] # "none"   \* requests are numbered as they are made
    /\ IF SkipsDebounce(skip_debounce, debounce)
       THEN /\ skip_debounce' = FALSE
            /\ route' = [route EXCEPT ![r] = "immediate"]
            /\ Closure(r, text)
            /\ UNCHANGED <<debounce, pending>>
       ELSE /\ route' = [route EXCEPT ![r] = "debounced"]
            /\ pending' = [r |-> r, text |-> text]
            /\ UNCHANGED <<settings, graph_cache, dirs, files, pc, hash, el, resolved, listeners,
                   cache_dir, frame, msgs, store, notices, source, parsed, srcdoc,
                   skip_debounce, debounce>>

(* The debouncer's timer runs out: the closure is called with the arguments
   kept *)
TimerFires ==
    /\ pending # NoPending
    /\ Closure(pending.r, pending.text)
    /\ pending' = NoPending
    /\ UNCHANGED <<skip_debounce, debounce, route>>

DebounceInit ==
    /\ settings = DEFAULT_SETTINGS_STATIC
    /\ graph_cache = [h \in Hashes |-> NoData]
    /\ dirs = {TmpDir}
    /\ files = [t \in Targets |-> NoFile]
    /\ pc = [r \in Reqs |-> "idle"]
    /\ hash = [r \in Reqs |-> "none"]
    /\ el = [r \in Reqs |-> <<>>]
    /\ resolved = {}
    /\ listeners = {}
    /\ cache_dir = [r \in Reqs |-> NoDir]
    /\ frame = [r \in Reqs |-> "none"]
    /\ msgs = <<>>
    /\ store = [r \in Reqs |-> NoWrite]
    /\ notices = [r \in Reqs |-> {}]
    /\ source = [i \in Calls |-> NoSource]
    /\ parsed = [i \in Calls |-> NotParsed]
    /\ srcdoc = [i \in Calls |-> NoDoc]
    /\ skip_debounce = FALSE
    /\ debounce \in LoadedDebounces
    /\ pending = NoPending
    /\ route = [i \in Calls |-> "none"]

DebounceNext ==
    \/ \E value \in DebounceTexts : SetDebounce(value)
    \/ LayoutChange
    \/ \E r \in Calls, text \in DebounceSources : Processor(r, text)
    \/ TimerFires

DebounceSpec == DebounceInit /\ [][DebounceNext]_vars

----------------------------------------------------------------------------
(* Vocabulary of the properties *)

(* The step in which request r's call of Renderer.render runs *)
RenderStep(r) == pc[r] = "idle" /\ pc'[r] # "idle"

(* The cache, as configured by c, holds an entry for fingerprint h *)
EntryPresent(c, h) ==
    \/ c.location = "Memory" /\ graph_cache[h] # NoData
    \/ c.location = "Filesystem" /\ files[CacheTarget(CacheDir(c.directory), h)] # NoFile

(* Request r went to the external renderer: its iframe was built *)
Submitted(r) == frame[r] # "none"

(* Request r awaits a completion: its handler is registered *)
Pending(r) == r \in listeners

(* Some queued message is a success signal for fingerprint h *)
SuccessInFlight(h) ==
    \E i \in 1..Len(msgs) : msgs[i].d = "render" /\ msgs[i].hash = h /\ msgs[i].origin = AppOrigin

----------------------------------------------------------------------------
(* C1: when caching is enabled and the lookup of a request hits (the
   fingerprint is a key of graph_cache under Memory, the cache file exists
   under Filesystem), the request builds no iframe, registers no listener and
   posts nothing, in the step of the lookup and ever after. *)
C1_HitNeverRenders ==
    /\ [][\A r \in Reqs :
            (RenderStep(r) /\ settings.enabled /\ EntryPresent(settings, hash'[r]))
                => (~Submitted(r)' /\ ~Pending(r)' /\ msgs' = msgs
                    /\ pc'[r] \in {"hit", "reading"})]_vars
    /\ [](\A r \in Reqs : pc[r] \in {"hit", "reading", "readfailed"}
                               => (~Submitted(r) /\ ~Pending(r)))

(* A request answered from graph_cache while the cache is enabled *)
C1_Witness ==
    \E r \in Reqs :
        /\ pc[r] = "hit"
        /\ settings.enabled /\ settings.location = "Memory"
        /\ el[r] = <<ImgNode(graph_cache[hash[r]])>>
        /\ ~Submitted(r)

(* C2: a request that hits the cache while caching is enabled has its promise
   resolved in the step that finds the entry. *)
C2_HitResolves ==
    [][\A r \in Reqs :
          (RenderStep(r) /\ settings.enabled /\ pc'[r] = "hit") => r \in resolved']_vars

(* C3: once the completion of a request was an error signal, nothing is
   stored under its fingerprint on its behalf, in that step or later:
   graph_cache keeps its entry for the fingerprint and the request starts no
   file write. (Stated for steps taken with the cache enabled, where a store
   after a success is what the configuration asks for.) *)
C3_ErrorNeverCaches ==
    [][\A r \in Reqs :
          ((pc[r] = "errored" \/ pc'[r] = "errored") /\ settings.enabled)
              => (graph_cache'[hash[r]] = graph_cache[hash[r]] /\ store'[r] = store[r])]_vars

(* C4: a request whose handler took a matching error message has its promise
   resolved. *)
C4_ErrorResolves == \A r \in Reqs : pc[r] = "errored" => r \in resolved

(* C5: after the first message matching a request was handled, success or
   error, the request's listener is no longer registered. *)
C5_ListenerRemovedOnFirstMatch ==
    \A r \in Reqs : pc[r] \in {"errored", "done"} => ~Pending(r)

(* C6: a pending request is changed only by the dispatch of a queued message
   that has the application's origin and the request's fingerprint: any other
   message, and a message from another origin whatever its fingerprint,
   leaves the request's output element, promise, listener, iframe and cache
   store, and the graph_cache entry of its fingerprint, as they were; and
   graph_cache changes in no step but the dispatch of a message of the
   application's origin. *)
AddressedTo(m, r) == m.origin = AppOrigin /\ m.hash = hash[r]

(* The step dispatches the oldest queued message *)
DeliverStep == msgs # <<>> /\ msgs' = Tail(msgs)

Untouched(r) ==
    /\ el'[r] = el[r]
    /\ pc'[r] = pc[r]
    /\ (r \in resolved') = (r \in resolved)
    /\ (r \in listeners') = (r \in listeners)
    /\ (frame'[r] = "gone") = (frame[r] = "gone")
    /\ store'[r] = store[r]
    /\ notices'[r] = notices[r]
    /\ graph_cache'[hash[r]] = graph_cache[hash[r]]

C6_MismatchIgnored ==
    [][/\ \A r \in Reqs :
             (Pending(r) /\ ~(DeliverStep /\ AddressedTo(Head(msgs), r))) => Untouched(r)
       /\ graph_cache' # graph_cache => (DeliverStep /\ Head(msgs).origin = AppOrigin)
       /\ DeliverStep => files' = files]_vars

(* Two requests for different fingerprints were in flight; the completion of
   one was handled and the other still shows its iframe and waits *)
C6_Witness ==
    \E r1, r2 \in Reqs :
        /\ hash[r1] # hash[r2]
        /\ pc[r1] = "done" /\ r1 \in resolved
        /\ pc[r2] = "waiting" /\ Pending(r2) /\ r2 \notin resolved
        /\ el[r2] = <<IframeNode(hash[r2])>>
        /\ graph_cache[hash[r1]] # NoData /\ graph_cache[hash[r2]] = NoData

(* C7: while the cache configuration has enabled = FALSE, a request made goes
   to the external renderer whatever the cache holds, and no step inserts
   into graph_cache or starts a cache file write. *)
C7_DisabledBypassesCache ==
    [][~settings.enabled =>
          /\ \A r \in Reqs : RenderStep(r) => (Submitted(r)' /\ Pending(r)')
          /\ graph_cache' = graph_cache
          /\ \A r \in Reqs : store'[r].st = "pending" => store[r].st = "pending"]_vars

(* C8: two requests for the same fingerprint that both missed the cache and
   wait: once a success signal for the fingerprint is queued, both promises
   are eventually resolved. *)
C8_BothResolve ==
    \A r1, r2 \in Reqs :
        (r1 < r2 /\ Pending(r1) /\ Pending(r2) /\ hash[r1] = hash[r2]
            /\ SuccessInFlight(hash[r1]))
        ~> (r1 \in resolved /\ r2 \in resolved)

(* Two requests for one fingerprint wait while a success signal is queued *)
C8_Witness ==
    \E r1, r2 \in Reqs :
        /\ r1 # r2 /\ Pending(r1) /\ Pending(r2) /\ hash[r1] = hash[r2]
        /\ Submitted(r1) /\ Submitted(r2)
        /\ SuccessInFlight(hash[r1])

(* C9: a request that finds the cache cold builds its own iframe and
   registers its own listener, also while another request for the same
   fingerprint is waiting; that other request keeps its listener. *)
C9_NoDeduplication ==
    [][\A r \in Reqs :
          (RenderStep(r) /\ ~EntryPresent(settings, hash'[r]))
              => /\ pc'[r] = "waiting"
                 /\ frame'[r] = "live"
                 /\ el'[r] = <<IframeNode(hash'[r])>>
                 /\ listeners' = listeners \cup {r}
                 /\ r \notin listeners]_vars

(* Two requests for one fingerprint in flight, each with its live iframe and
   its listener *)
C9_Witness ==
    \E r1, r2 \in Reqs :
        /\ r1 # r2 /\ hash[r1] = hash[r2]
        /\ frame[r1] = "live" /\ frame[r2] = "live"
        /\ {r1, r2} \subseteq listeners
        /\ pc[r1] = "waiting" /\ pc[r2] = "waiting"

(* C10: no step removes a cache entry; and once a request has succeeded and
   its store has completed (the insert into graph_cache, or the fulfilled
   file write), a later request for the same fingerprint under the same cache
   location and directory hits the cache and does not go to the renderer. *)
StoredUnder(q, c) ==
    \/ store[q].st = "memory" /\ c.location = "Memory"
    \/ store[q].st = "done" /\ c.location = "Filesystem"
         /\ CacheDir(c.directory) = cache_dir[q]

C10_StoredEntryIsReused ==
    [][/\ \A h \in Hashes : graph_cache[h] # NoData => graph_cache'[h] # NoData
       /\ \A t \in Targets : files[t] # NoFile => files'[t] # NoFile
       /\ \A r, q \in Reqs :
             (RenderStep(r) /\ pc[q] = "done" /\ hash[q] = hash'[r]
                 /\ StoredUnder(q, settings))
                 => (pc'[r] \in {"hit", "reading"} /\ ~Submitted(r)' /\ ~Pending(r)')]_vars

(* A request answered from the cache file an earlier request wrote *)
C10_Witness ==
    \E r, q \in Reqs :
        /\ pc[q] = "done" /\ store[q].st = "done"
        /\ hash[r] = hash[q] /\ cache_dir[r] = cache_dir[q]
        /\ pc[r] = "hit"
        /\ el[r] = <<ImgNode(store[q].data)>>
        /\ ~Submitted(r)

(* C11: an entry of the cache, once created, keeps its value: no step
   replaces the data URI graph_cache holds for a fingerprint, or the contents
   of a cache file that exists, by the outcome of a later successful render. *)
C11_EntryNeverOverwritten ==
    [][/\ \A h \in Hashes : graph_cache[h] # NoData => graph_cache'[h] = graph_cache[h]
       /\ \A t \in Targets : files[t] # NoFile => files'[t] = files[t]]_vars

(* C12: a request whose cache store failed on the filesystem (the directory
   was not found, or the write was rejected) has completed all the same: it
   shows the rendered image, its promise is resolved, and a Notice was shown. *)
C12_StoreFailureIsNotFatal ==
    \A r \in Reqs :
        store[r].st \in {"nodir", "failed"}
            => /\ pc[r] = "done"
               /\ r \in resolved
               /\ el[r] = <<ImgNode(store[r].data)>>
               /\ notices[r] # {}

(* One request's write was rejected and another found no cache directory;
   both show their image and are resolved *)
C12_Witness ==
    \E r, q \in Reqs :
        /\ store[r].st = "failed" /\ store[q].st = "nodir"
        /\ {r, q} \subseteq resolved
        /\ el[r] = <<ImgNode(store[r].data)>> /\ el[q] = <<ImgNode(store[q].data)>>
        /\ "unexpected error when trying to cache graph" \in notices[r]
        /\ "cache directory not found" \in notices[q]

(* The directory a path lies in: the path up to its last separator *)
Dirname(p) ==
    LET I == {i \in 1..Len(p) : p[i] = "/"} IN
    IF I = {} THEN <<".">>
    ELSE IF Max(I) = 1 THEN <<"/">>
    ELSE SubSeq(p, 1, Max(I) - 1)

(* C13: no step creates a directory; a handler that stores under Filesystem
   while its cache directory does not exist starts no write, leaves the files
   alone and shows the directory-not-found Notice; hence every write started
   and every cache file lies in a directory that exists. *)
C13_NeverCreatesDirectory ==
    /\ [](\A r \in Reqs : store[r].st \in {"pending", "done", "failed"} => cache_dir[r] \in dirs)
    /\ [](\A t \in Targets : files[t] # NoFile => Dirname(t) \in dirs)
    /\ [][/\ dirs' = dirs
          /\ \A r \in Reqs :
                (store'[r] # store[r] /\ settings.location = "Filesystem"
                    /\ cache_dir[r] \notin dirs)
                    => /\ store'[r].st = "nodir"
                       /\ "cache directory not found" \in notices'[r]
                       /\ files' = files]_vars

(* A request succeeded under Filesystem while its cache directory was missing *)
C13_Witness ==
    \E r \in Reqs :
        /\ pc[r] = "done" /\ store[r].st = "nodir"
        /\ cache_dir[r] \notin dirs
        /\ "cache directory not found" \in notices[r]
        /\ \A h \in Hashes : files[CacheTarget(cache_dir[r], h)] = NoFile

(* C14: a request whose read of the existing cache file failed has gone on to
   the renderer: its iframe was built and its listener registered. *)
C14_ReadFailureFallsThrough ==
    \A r \in Reqs : pc[r] = "readfailed" => (Submitted(r) /\ Pending(r))

----------------------------------------------------------------------------
(* Vocabulary of the properties of Dsl.parse *)

(* Call i of Dsl.parse has come to its end *)
Parsed(i) == parsed[i] # NotParsed

(* Call i returned a Dsl *)
Returned(i) == Parsed(i) /\ parsed[i].ok

(* Call i threw a SyntaxError with this message *)
Threw(i, message) ==
    /\ Parsed(i) /\ ~parsed[i].ok
    /\ parsed[i].err.name = "SyntaxError"
    /\ parsed[i].err.message = message

TooManySegments == {"Too many segments"}

DuplicateStyle == {"Duplicate style identifiers detected"}

DuplicateColor == {"Duplicate color identifiers detected"}

InvalidBoundary == {"Right boundary must be greater than left boundary",
                    "Top boundary must be greater than bottom boundary"}

ThrewOneOf(i, kind) == \E message \in kind : Threw(i, message)

(* An optional property of an equation: <<value>>, or <<>> when it has none *)
Optional(eq, key) == IF HasKey(eq, key) THEN <<Get(eq, key)>> ELSE <<>>

(* The content of an equation, field for field *)
EquationContent(eq) ==
    [expression |-> Get(eq, kEquation), style |-> Optional(eq, kStyle),
     color |-> Optional(eq, kColor), restriction |-> Optional(eq, kRestriction)]

FieldNames == {kWidth, kHeight, kLeft, kRight, kBottom, kTop}

(* The content of a Dsl: its equations in order and its six field values *)
SpecContent(d) ==
    [equations |-> [e \in 1..Len(d.equations) |-> EquationContent(d.equations[e])],
     fields |-> [k \in FieldNames |-> Get(d.fields, k)]]

(* The segments of a source, and its parts as the grammar names them *)
Segments(text) == Split(text, Separator)

BodyLines(text) == LET seg == Segments(text) IN FilterBoolean(Split(seg[Len(seg)], <<"\n">>))

Modifiers(line) == Tail(Split(line, <<"|">>))

IsStyleToken(seg) == ToUpperCase(seg) \in EquationStyle

IsColorToken(seg) ==
    ~IsStyleToken(seg) /\ (ToUpperCase(seg) \in EquationColor \/ isHexColor(seg))

StyleTokens(line) == SelectSeq(Modifiers(line), IsStyleToken)

ColorTokens(line) == SelectSeq(Modifiers(line), IsColorToken)

HasBanned(s) == \E c \in {"\"", "'", Backtick} : Includes(s, c)

(* The overrides of the settings block, where a source has one *)
Overrides(text) ==
    IF Len(Segments(text)) = 2
    THEN ReduceSettings(SettingEntries(Segments(text)[1]), <<>>)
    ELSE Return(<<>>)

(* Nothing but the boundaries can be wrong with the source: it has at most
   one separator, its settings block is valid, no line has a banned
   character, two style tokens or two color tokens *)
SoundButBoundaries(text) ==
    LET lines == BodyLines(text) IN
    /\ Len(Segments(text)) <= 2
    /\ Overrides(text).ok
    /\ \A l \in 1..Len(lines) :
          /\ ~HasBanned(lines[l])
          /\ Len(StyleTokens(lines[l])) <= 1 /\ Len(ColorTokens(lines[l])) <= 1

(* The defaults with the overrides of the source in their place *)
Merged(text) ==
    LET overrides == Overrides(text).val IN
    [k \in FieldNames |->
        IF HasKey(overrides, k) THEN Get(overrides, k) ELSE Get(FIELD_DEFAULTS, k)]

----------------------------------------------------------------------------
(* C15: two calls of parse that return Dsls of equal content (the same
   equations in the same order, each with the same expression, style, color
   and restriction, and the same six field values) return equal hashes. *)
C15_FingerprintDeterminism ==
    (Returned(1) /\ Returned(2) /\ SpecContent(parsed[1].val) = SpecContent(parsed[2].val))
        => parsed[1].val.hash = parsed[2].val.hash

(* C16: two calls of parse that return Dsls of different content return
   different hashes, the digest being injective on the text digested. *)
C16_FingerprintSensitivity ==
    (Returned(1) /\ Returned(2) /\ SpecContent(parsed[1].val) # SpecContent(parsed[2].val))
        => parsed[1].val.hash # parsed[2].val.hash

(* Two Dsls of one equation each that differ in nothing but the fields, and
   have different hashes *)
C16_Witness ==
    /\ Returned(1) /\ Returned(2)
    /\ parsed[1].val.equations = parsed[2].val.equations
    /\ Len(parsed[1].val.equations) = 1
    /\ SpecContent(parsed[1].val).fields # SpecContent(parsed[2].val).fields
    /\ parsed[1].val.hash # parsed[2].val.hash

(* C17: a Dsl that parse returns has left < right and bottom < top; a source
   whose overrides merged with the defaults have left >= right or
   bottom >= top is refused, and with the boundary error when nothing that
   parse looks at earlier (the separators, the settings block, the lines of
   the body) is wrong with it. *)
C17_BoundariesOrdered ==
    \A i \in Calls :
        /\ Returned(i) =>
              /\ Get(parsed[i].val.fields, kLeft) < Get(parsed[i].val.fields, kRight)
              /\ Get(parsed[i].val.fields, kBottom) < Get(parsed[i].val.fields, kTop)
        /\ (Parsed(i) /\ Overrides(source[i]).ok)
              => LET merged == Merged(source[i]) IN
                 (merged[kLeft] >= merged[kRight] \/ merged[kBottom] >= merged[kTop])
                     => /\ ~parsed[i].ok
                        /\ SoundButBoundaries(source[i]) => ThrewOneOf(i, InvalidBoundary)

(* left=15 alone, which crosses the default right bound, was refused *)
C17_Witness ==
    /\ source[1] = <<"l", "e", "f", "t", "=", "1", "5", "-", "-", "-", "y", "=", "x">>
    /\ Threw(1, "Right boundary must be greater than left boundary")

(* C18: a source with a line that has two or more style tokens, or two or
   more color tokens (named or hex, in any case), is refused, with the
   duplicate-style or duplicate-color error when nothing comes before it in
   the source (a valid settings block, no banned character, no other kind of
   duplicate on a line); every equation of a Dsl returned has at most one
   style and one color, the one such token of its line. *)
C18_NoDuplicateStyleOrColor ==
    \A i \in Calls :
        Parsed(i) =>
            LET lines == BodyLines(source[i])
                styles == [l \in 1..Len(lines) |-> StyleTokens(lines[l])]
                colors == [l \in 1..Len(lines) |-> ColorTokens(lines[l])]
                twoStyles == \E l \in 1..Len(lines) : Len(styles[l]) >= 2
                twoColors == \E l \in 1..Len(lines) : Len(colors[l]) >= 2
                nothingBefore ==
                    /\ Len(Segments(source[i])) <= 2
                    /\ Overrides(source[i]).ok
                    /\ \A l \in 1..Len(lines) : ~HasBanned(lines[l])
            IN
            /\ (twoStyles \/ twoColors) => ~parsed[i].ok
            /\ (nothingBefore /\ twoStyles /\ ~twoColors) => ThrewOneOf(i, DuplicateStyle)
            /\ (nothingBefore /\ twoColors /\ ~twoStyles) => ThrewOneOf(i, DuplicateColor)
            /\ parsed[i].ok =>
                  /\ Len(parsed[i].val.equations) = Len(lines)
                  /\ \A e \in 1..Len(lines) :
                        LET eq == parsed[i].val.equations[e] IN
                        /\ Optional(eq, kStyle)
                              = [t \in 1..Len(styles[e]) |-> ToUpperCase(styles[e][t])]
                        /\ Optional(eq, kColor)
                              = [t \in 1..Len(colors[e]) |->
                                    IF isHexColor(colors[e][t]) THEN colors[e][t]
                                    ELSE ToUpperCase(colors[e][t])]

(* A line with a named and a hex color was refused as a duplicate color *)
C18_Witness ==
    /\ source[1] = <<"y", "=", "x", "|", "R", "E", "D", "|", "#", "A", "b", "1">>
    /\ Threw(1, "Duplicate color identifiers detected")

(* C19: a source without separator is parsed as a body, the fields being the
   defaults; a source with one separator as a settings block and a body; a
   source with two or more separators makes parse throw "Too many segments"
   whatever its segments hold. *)
C19_SegmentRule ==
    \A i \in Calls :
        Parsed(i) =>
            LET seg == Segments(source[i]) IN
            /\ Len(seg) = 1 =>
                  /\ parsed[i].ok = ProcessEquations(Lines(seg[1])).ok
                  /\ parsed[i].ok =>
                        /\ parsed[i].val.equations = ProcessEquations(Lines(seg[1])).val
                        /\ parsed[i].val.fields = FIELD_DEFAULTS
            /\ Len(seg) = 2 =>
                  /\ ~Overrides(source[i]).ok => parsed[i] = Overrides(source[i])
                  /\ parsed[i].ok =>
                        /\ parsed[i].val.equations = ProcessEquations(Lines(seg[2])).val
                        /\ SpecContent(parsed[i].val).fields = Merged(source[i])
            /\ Len(seg) >= 3 => ThrewOneOf(i, TooManySegments)

(* A source of three segments, each a valid body, was refused *)
C19_Witness ==
    /\ source[1] = <<"y", "=", "x", "-", "-", "-", "y", "=", "x", "-", "-", "-", "y", "=", "x">>
    /\ Threw(1, "Too many segments")

(* C20: a source that holds nothing but newlines, the empty source among
   them, makes parse return a Dsl with no equation and the fields 600, 400,
   -10, 10, -7, 7. *)
C20_EmptySource ==
    \A i \in Calls :
        (Parsed(i) /\ \A k \in 1..Len(source[i]) : source[i][k] = "\n")
            => /\ Returned(i)
               /\ parsed[i].val.equations = <<>>
               /\ Get(parsed[i].val.fields, kWidth) = 600
               /\ Get(parsed[i].val.fields, kHeight) = 400
               /\ Get(parsed[i].val.fields, kLeft) = -10
               /\ Get(parsed[i].val.fields, kRight) = 10
               /\ Get(parsed[i].val.fields, kBottom) = -7
               /\ Get(parsed[i].val.fields, kTop) = 7

(* The empty source and a source of one newline were both parsed *)
C20_Witness ==
    /\ source[1] = <<"\n">> /\ source[2] = <<>>
    /\ Returned(1) /\ Returned(2)
    /\ parsed[1].val.equations = <<>> /\ parsed[2].val.equations = <<>>

----------------------------------------------------------------------------
(* The entries of the settings block, where a source has one, and the key
   and value of an entry: the text before and after its first equals sign *)
Entries(text) ==
    IF Len(Segments(text)) = 2 THEN SettingEntries(Segments(text)[1]) ELSE <<>>

KeyOf(entry) ==
    LET j == IndexOfFrom(entry, <<"=">>, 1) IN
    IF j = 0 THEN entry ELSE SubSeq(entry, 1, j - 1)

ValueOf(entry) ==
    LET j == IndexOfFrom(entry, <<"=">>, 1) IN
    IF j = 0 THEN <<>> ELSE Slice(entry, j + 1)

(* The default of each field, as the data model states it *)
DefaultOf(k) ==
    CASE k = kWidth -> 600 [] k = kHeight -> 400 [] k = kLeft -> -10
      [] k = kRight -> 10 [] k = kBottom -> -7 [] k = kTop -> 7

(* The entries of a settings block that name the key k *)
Naming(entries, k) == {e \in 1..Len(entries) : KeyOf(entries[e]) = k}

(* C21: the fields of a Dsl returned for a source with a settings block are
   the six fields and no other; a field no entry names has its default, and
   a field that is named has the integer read from the value of the (last)
   entry naming it. *)
C21_FieldsMerged ==
    \A i \in Calls :
        (Returned(i) /\ Len(Segments(source[i])) = 2) =>
            LET entries == Entries(source[i])
                fields == parsed[i].val.fields
            IN /\ Len(fields) = 6
               /\ \A k \in FieldNames :
                     /\ HasKey(fields, k)
                     /\ Get(fields, k) =
                           IF Naming(entries, k) = {} THEN DefaultOf(k)
                           ELSE ParseInt(ValueOf(entries[Max(Naming(entries, k))])).n

(* height=20;width=10 was parsed: the two fields are replaced, the others
   keep their defaults *)
C21_Witness ==
    /\ source[1] = <<"h", "e", "i", "g", "h", "t", "=", "2", "0", ";", "w", "i", "d", "t", "h", "=", "1", "0", "-", "-", "-", "y", "=", "x">>
    /\ Returned(1)
    /\ Get(parsed[1].val.fields, kWidth) = 10 /\ Get(parsed[1].val.fields, kHeight) = 20
    /\ Get(parsed[1].val.fields, kLeft) = -10 /\ Get(parsed[1].val.fields, kTop) = 7

----------------------------------------------------------------------------
UnrecognizedField == {"Unrecognised field"}

(* The entries of a settings block whose key is not the name of a field *)
Unknown(entries) == {e \in 1..Len(entries) : KeyOf(entries[e]) \notin FieldNames}

(* The entry has a value and parseInt reads a number from it *)
Readable(entry) == ValueOf(entry) # <<>> /\ ~ParseInt(ValueOf(entry)).nan

(* C22: a source whose settings block has an entry with a key that is not
   one of the six field names is refused; the error is the unrecognised-field
   error, naming the key, when no entry before that one is refused for its
   value; and the fields of a Dsl returned have no key but the six. *)
C22_UnrecognizedField ==
    \A i \in Calls :
        Parsed(i) =>
            LET entries == Entries(source[i])
                unknown == Unknown(entries)
            IN /\ unknown # {} =>
                     /\ ~parsed[i].ok
                     /\ (\A e \in 1..(Min(unknown) - 1) : Readable(entries[e]))
                           => /\ ThrewOneOf(i, UnrecognizedField)
                              /\ parsed[i].err.detail = KeyOf(entries[Min(unknown)])
               /\ Returned(i) =>
                     \A f \in 1..Len(parsed[i].val.fields) :
                         parsed[i].val.fields[f][1] \in FieldNames

(* foo=1 was refused as an unrecognised field, the error naming foo *)
C22_Witness ==
    /\ source[1] = <<"f", "o", "o", "=", "1", "-", "-", "-", "y", "=", "x">>
    /\ Threw(1, "Unrecognised field")
    /\ parsed[1].err.detail = <<"f", "o", "o">>

----------------------------------------------------------------------------
InvalidFieldType == {"Field must have an integer value"}

(* The whole text denotes an integer: an optional sign and digits, no more,
   blanks around them aside *)
IsIntegerText(v) ==
    LET t == Trim(v)
        u == IF t # <<>> /\ t[1] \in {"-", "+"} THEN Tail(t) ELSE t
    IN u # <<>> /\ \A k \in 1..Len(u) : IsDigit(u[k])

(* The entries that name a field and give it a value that is not an integer *)
NotInteger(entries) ==
    {e \in 1..Len(entries) :
        /\ KeyOf(entries[e]) \in FieldNames
        /\ ValueOf(entries[e]) # <<>>
        /\ ~IsIntegerText(ValueOf(entries[e]))}

(* C23: a source whose settings block gives a field a value that is not, as
   a whole, the text of an integer is refused, and with the integer-value
   error when no entry before it is wrong. *)
C23_NonIntegerRefused ==
    \A i \in Calls :
        Parsed(i) =>
            LET entries == Entries(source[i])
                bad == NotInteger(entries)
            IN bad # {} =>
                  /\ ~parsed[i].ok
                  /\ (\A e \in 1..(Min(bad) - 1) :
                          KeyOf(entries[e]) \in FieldNames /\ Readable(entries[e]))
                        => ThrewOneOf(i, InvalidFieldType)

----------------------------------------------------------------------------
BannedCharacter == {"Unexpected character in graph equation",
                    "Unexpected character in graph configuration"}

(* The expression of a body line, and its restriction fragments: the
   modifiers that are neither a style nor a color token *)
Expression(line) == Head(Split(line, <<"|">>))

IsFragment(seg) == ~IsStyleToken(seg) /\ ~IsColorToken(seg)

Fragments(line) == SelectSeq(Modifiers(line), IsFragment)

(* The expression or a restriction fragment of the line has a banned character *)
BannedOnLine(line) ==
    \/ HasBanned(Expression(line))
    \/ \E f \in 1..Len(Fragments(line)) : HasBanned(Fragments(line)[f])

(* C24: no expression and no restriction of a Dsl returned has a double
   quote, a single quote or a backtick; a source with a body line whose
   expression or restriction fragment has one is refused, and with the
   banned-character error when nothing else is wrong with the source (the
   separators, the settings block, two styles or two colors on a line). *)
C24_NoBannedCharacter ==
    \A i \in Calls :
        Parsed(i) =>
            LET lines == BodyLines(source[i]) IN
            /\ Returned(i) =>
                  \A e \in 1..Len(parsed[i].val.equations) :
                      LET eq == parsed[i].val.equations[e] IN
                      /\ ~HasBanned(Get(eq, kEquation))
                      /\ HasKey(eq, kRestriction) => ~HasBanned(Get(eq, kRestriction))
            /\ (\E l \in 1..Len(lines) : BannedOnLine(lines[l])) =>
                  /\ ~parsed[i].ok
                  /\ (/\ Len(Segments(source[i])) <= 2
                      /\ Overrides(source[i]).ok
                      /\ \A l \in 1..Len(lines) :
                            Len(StyleTokens(lines[l])) <= 1 /\ Len(ColorTokens(lines[l])) <= 1)
                        => ThrewOneOf(i, BannedCharacter)

(* A line with a backtick in a restriction fragment was refused *)
C24_Witness ==
    /\ source[1] = <<"y", "=", "x", "|", "x", ">", "0", "|", "a", Backtick>>
    /\ Threw(1, "Unexpected character in graph configuration")
    /\ parsed[1].err.detail = <<Backtick>>

----------------------------------------------------------------------------
(* C25: every equation of a Dsl returned has a non-empty expression. *)
C25_ExpressionNotEmpty ==
    \A i \in Calls :
        Returned(i) =>
            \A e \in 1..Len(parsed[i].val.equations) :
                Get(parsed[i].val.equations[e], kEquation) # <<>>

----------------------------------------------------------------------------
(* The style and color names of the data model, in upper case *)
StyleNames == {<<"S", "O", "L", "I", "D">>, <<"D", "A", "S", "H", "E", "D">>, <<"D", "O", "T", "T", "E", "D">>, <<"P", "O", "I", "N", "T">>, <<"O", "P", "E", "N">>, <<"C", "R", "O", "S", "S">>}

ColorNames == {<<"R", "E", "D">>, <<"B", "L", "U", "E">>, <<"G", "R", "E", "E", "N">>, <<"P", "U", "R", "P", "L", "E">>, <<"O", "R", "A", "N", "G", "E">>, <<"B", "L", "A", "C", "K">>}

IsAlphanumeric(c) == IsDigit(c) \/ Includes(LowerCase, c) \/ Includes(UpperCase, c)

(* A # followed by one or more alphanumerics *)
HexForm(seg) ==
    /\ Len(seg) >= 2 /\ seg[1] = "#"
    /\ \A k \in 2..Len(seg) : IsAlphanumeric(seg[k])

(* The class of a modifier segment: style, then color, then restriction *)
ClassOf(seg) ==
    IF ToUpperCase(seg) \in StyleNames THEN "style"
    ELSE IF ToUpperCase(seg) \in ColorNames \/ HexForm(seg) THEN "color"
    ELSE "restriction"

(* C26: in a Dsl returned, each modifier of a line, wherever it stands among
   the modifiers, has gone where its class says: a style name in any case is
   the style, in upper case; a color name in any case is the color, in upper
   case; a # followed by alphanumerics is the color, as written; any other is
   wrapped in braces in the restriction. An equation has no style, color or
   restriction but from such a modifier. *)
C26_Classification ==
    \A i \in Calls :
        Returned(i) =>
            LET lines == BodyLines(source[i]) IN
            /\ Len(parsed[i].val.equations) = Len(lines)
            /\ \A e \in 1..Len(lines) :
                  LET eq == parsed[i].val.equations[e]
                      mods == Modifiers(lines[e])
                      classes == {ClassOf(mods[m]) : m \in 1..Len(mods)}
                  IN /\ \A m \in 1..Len(mods) :
                           CASE ClassOf(mods[m]) = "style" ->
                                    Optional(eq, kStyle) = <<ToUpperCase(mods[m])>>
                             [] ClassOf(mods[m]) = "color" ->
                                    Optional(eq, kColor) =
                                        <<IF HexForm(mods[m]) THEN mods[m]
                                          ELSE ToUpperCase(mods[m])>>
                             [] OTHER ->
                                    /\ HasKey(eq, kRestriction)
                                    /\ IndexOfFrom(Get(eq, kRestriction),
                                                   <<"{">> \o mods[m] \o <<"}">>, 1) > 0
                     /\ HasKey(eq, kStyle) <=> "style" \in classes
                     /\ HasKey(eq, kColor) <=> "color" \in classes
                     /\ HasKey(eq, kRestriction) <=> "restriction" \in classes

(* A lower-case style after a mixed-case color: both were recognised *)
C26_Witness ==
    /\ source[1] = <<"y", "=", "x", "|", "B", "l", "u", "e", "|", "d", "o", "t", "t", "e", "d">>
    /\ Returned(1)
    /\ Optional(parsed[1].val.equations[1], kStyle) = <<<<"D", "O", "T", "T", "E", "D">>>>
    /\ Optional(parsed[1].val.equations[1], kColor) = <<<<"B", "L", "U", "E">>>>
    /\ ~HasKey(parsed[1].val.equations[1], kRestriction)

----------------------------------------------------------------------------
(* The modifiers of a line that are restriction fragments, in their order *)
RestrictionFragments(line) ==
    SelectSeq(Modifiers(line), LAMBDA seg : ClassOf(seg) = "restriction")

(* {f1}{f2}...{fn} *)
RECURSIVE Braced(_)
Braced(frags) ==
    IF frags = <<>> THEN <<>>
    ELSE <<"{">> \o frags[1] \o <<"}">> \o Braced(Tail(frags))

(* C27: in a Dsl returned, the restriction of an equation whose line has the
   restriction fragments f1..fn (n >= 1), a style or a color standing among
   them or not, is {f1}{f2}...{fn}; an equation whose line has no fragment
   has no restriction. *)
C27_RestrictionsAccumulate ==
    \A i \in Calls :
        Returned(i) =>
            LET lines == BodyLines(source[i]) IN
            /\ Len(parsed[i].val.equations) = Len(lines)
            /\ \A e \in 1..Len(lines) :
                  LET frags == RestrictionFragments(lines[e]) IN
                  Optional(parsed[i].val.equations[e], kRestriction)
                      = IF frags = <<>> THEN <<>> ELSE <<Braced(frags)>>

(* Two fragments with a style between them and a color after them *)
C27_Witness ==
    /\ source[1] = <<"y", "=", "x", "|", "x", ">", "0", "|", "P", "O", "I", "N", "T", "|", "y", "<", "1", "|", "g", "r", "e", "e", "n">>
    /\ Returned(1)
    /\ Get(parsed[1].val.equations[1], kRestriction) = <<"{", "x", ">", "0", "}", "{", "y", "<", "1", "}">>
    /\ Get(parsed[1].val.equations[1], kStyle) = <<"P", "O", "I", "N", "T">>

----------------------------------------------------------------------------
(* The properties an equation object has *)
Keys(obj) == {obj[p][1] : p \in 1..Len(obj)}

(* An equation as the data model has it: an expression, at most a style that
   is a style name, a color that is a color name or of the hex form, and a
   restriction; no banned character in any of them, no property twice *)
ValidEquation(eq) ==
    /\ kEquation \in Keys(eq)
    /\ Keys(eq) \subseteq {kEquation, kStyle, kColor, kRestriction}
    /\ \A p, q \in 1..Len(eq) : eq[p][1] = eq[q][1] => p = q
    /\ \A p \in 1..Len(eq) : ~HasBanned(eq[p][2])
    /\ kStyle \in Keys(eq) => Get(eq, kStyle) \in StyleNames
    /\ kColor \in Keys(eq) => (Get(eq, kColor) \in ColorNames \/ HexForm(Get(eq, kColor)))

(* Fields as the data model has them: six integers, the boundaries ordered *)
ValidFields(fields) ==
    /\ Keys(fields) = FieldNames /\ Len(fields) = 6
    /\ \A k \in FieldNames : Get(fields, k) \in Int
    /\ Get(fields, kLeft) < Get(fields, kRight)
    /\ Get(fields, kBottom) < Get(fields, kTop)

(* C28: a call of parse comes to one of two ends: it returns a Dsl whose
   equations and fields are all valid, or it throws a SyntaxError and there
   is no Dsl. *)
C28_TotalAllOrNothing ==
    \A i \in Calls :
        Parsed(i) =>
            \/ /\ parsed[i].ok
               /\ parsed[i].err = NoError
               /\ ValidFields(parsed[i].val.fields)
               /\ \A e \in 1..Len(parsed[i].val.equations) :
                     ValidEquation(parsed[i].val.equations[e])
            \/ /\ ~parsed[i].ok
               /\ parsed[i].err.name = "SyntaxError"
               /\ parsed[i].val = <<>>

(* One call threw on a source with two things wrong, the other returned *)
C28_Witness ==
    /\ source[1] = <<"f", "o", "o", "=", "1", "-", "-", "-", "y", "=", "x", "|", "R", "E", "D", "|", "#", "A", "b", "1">>
    /\ Threw(1, "Unrecognised field") /\ parsed[1].val = <<>>
    /\ source[2] = <<"y", "=", "x", "|", "S", "O", "L", "I", "D", "|", "R", "E", "D">>
    /\ Returned(2) /\ ValidEquation(parsed[2].val.equations[1])

----------------------------------------------------------------------------
(* Dsl.parse threw on the source of request r *)
Refused(r) == Parsed(r) /\ ~parsed[r].ok

(* C29: the call of the closure on a source that Dsl.parse refuses shows the
   message of the error in the element of the request and does nothing
   else: no iframe and no page, no listener, no message, no read of the
   cache and no change to it; and the request stays so whatever happens
   after. *)
C29_ParseFailureStops ==
    /\ [](\A r \in Calls :
            Refused(r) =>
                /\ el[r] = <<ErrorNode(parsed[r].err.message)>>
                /\ pc[r] = "refused" /\ hash[r] = "none"
                /\ frame[r] = "none" /\ srcdoc[r] = NoDoc
                /\ r \notin listeners
                /\ store[r] = NoWrite /\ notices[r] = {})
    /\ [][\A r \in Calls :
            (~Parsed(r) /\ Refused(r)') =>
                /\ graph_cache' = graph_cache /\ files' = files /\ dirs' = dirs
                /\ listeners' = listeners /\ msgs' = msgs
                /\ frame' = frame /\ srcdoc' = srcdoc /\ store' = store]_vars

(* A line with two styles was refused while the cache held an image and
   the first request's iframe was gone *)
C29_Witness ==
    /\ source[2] = <<"y", "=", "x", "|", "S", "O", "L", "I", "D", "|", "D", "A", "S", "H", "E", "D">>
    /\ Refused(2) /\ pc[2] = "refused"
    /\ el[2] = <<ErrorNode("Duplicate style identifiers detected")>>
    /\ pc[1] = "done" /\ \E h \in Hashes : graph_cache[h] # NoData

----------------------------------------------------------------------------
(* The text t begins with the text p *)
StartsWith(t, p) == Len(t) >= Len(p) /\ SubSeq(t, 1, Len(p)) = p

(* The style of the equation is sent as this property of the command, and
   not as the other *)
SentAs(cmd, property, other, style) ==
    /\ HasKey(cmd, property) /\ Get(cmd, property) = <<"D", "e", "s", "m", "o", "s", ".", "S", "t", "y", "l", "e", "s", ".">> \o style
    /\ ~HasKey(cmd, other)

(* C30: the equations of the Dsl a call returned are the non-empty lines of
   the body, one for one and in their order; the page written for the
   request has one setExpression command for each equation, in the order of
   the equations, each with the expression of its equation; a style SOLID,
   DASHED or DOTTED is written as lineStyle and a style POINT, OPEN or CROSS
   as pointStyle, an equation without style having neither; and the bounds
   given to setMathBounds are the left, right, top and bottom of the Dsl. *)
C30_CommandsFollowEquations ==
    \A r \in Calls :
        Returned(r) =>
            LET lines == BodyLines(source[r])
                equations == parsed[r].val.equations
                fields == parsed[r].val.fields
                page == srcdoc[r]
            IN /\ Len(equations) = Len(lines)
               /\ \A e \in 1..Len(lines) : Get(equations[e], kEquation) = Expression(lines[e])
               /\ (page # NoDoc) <=> (frame[r] # "none")
               /\ page # NoDoc =>
                     /\ Len(page.expressions) = Len(equations)
                     /\ \A e \in 1..Len(equations) :
                           LET cmd == page.expressions[e]
                               style == Optional(equations[e], kStyle)
                           IN /\ StartsWith(Get(cmd, "latex"),
                                            <<"\"">> \o Get(equations[e], kEquation))
                              /\ style = <<>> =>
                                    ~HasKey(cmd, "lineStyle") /\ ~HasKey(cmd, "pointStyle")
                              /\ (style # <<>> /\ style[1] \in {<<"S", "O", "L", "I", "D">>, <<"D", "A", "S", "H", "E", "D">>, <<"D", "O", "T", "T", "E", "D">>})
                                    => SentAs(cmd, "lineStyle", "pointStyle", style[1])
                              /\ (style # <<>> /\ style[1] \in {<<"P", "O", "I", "N", "T">>, <<"O", "P", "E", "N">>, <<"C", "R", "O", "S", "S">>})
                                    => SentAs(cmd, "pointStyle", "lineStyle", style[1])
                     /\ Get(page.bounds, "left") = NumberToString(Get(fields, kLeft))
                     /\ Get(page.bounds, "right") = NumberToString(Get(fields, kRight))
                     /\ Get(page.bounds, "top") = NumberToString(Get(fields, kTop))
                     /\ Get(page.bounds, "bottom") = NumberToString(Get(fields, kBottom))

(* The page of the source with a settings block and three equations: three
   commands, a line style, a point style and a line style, and the bounds
   of the block *)
C30_Witness ==
    /\ Returned(1) /\ Len(parsed[1].val.equations) = 3
    /\ Len(srcdoc[1].expressions) = 3
    /\ Get(srcdoc[1].expressions[1], "lineStyle") = <<"D", "e", "s", "m", "o", "s", ".", "S", "t", "y", "l", "e", "s", ".", "D", "A", "S", "H", "E", "D">>
    /\ Get(srcdoc[1].expressions[2], "pointStyle") = <<"D", "e", "s", "m", "o", "s", ".", "S", "t", "y", "l", "e", "s", ".", "P", "O", "I", "N", "T">>
    /\ Get(srcdoc[1].expressions[3], "latex") = <<"\"">> \o <<"y", "=", "2">> \o <<"\"">>
    /\ Get(srcdoc[1].bounds, "left") = <<"-", "5">> /\ Get(srcdoc[1].bounds, "top") = <<"3">>

----------------------------------------------------------------------------
(* The target the request r looks its image up at and stores it under *)
TargetOf(r) == CacheTarget(cache_dir[r], hash[r])

(* In one directory, distinct fingerprints have distinct targets *)
DistinctTargets ==
    \A dir \in AllDirs : \A h1, h2 \in Hashes :
        h1 # h2 => CacheTarget(dir, h1) # CacheTarget(dir, h2)

(* C31: the render step of a request resolves the cache directory from the
   directory setting it finds: an absolute path as it is written, a relative
   path joined onto the vault root, an unset one to the temporary directory.
   The file the request looks up and reads and the file it writes are both the
   target of that directory and the request's fingerprint, whatever the
   setting has become since; and in one directory distinct fingerprints have
   distinct targets. *)
C31_DirectoryResolution ==
    /\ []DistinctTargets
    /\ [][/\ \A r \in Reqs :
               RenderStep(r) =>
                 LET d == settings.directory
                     target == CacheTarget(cache_dir'[r], hash'[r])
                 IN
                 /\ (d = <<>>) => cache_dir'[r] = TmpDir
                 /\ (d # <<>> /\ d[1] = "/") => cache_dir'[r] = d
                 /\ (d # <<>> /\ d[1] # "/") => cache_dir'[r] = PathJoin(VaultRoot, d)
                 /\ settings.location = "Filesystem"
                       => ((pc'[r] = "reading") <=> (files[target] # NoFile))
                 /\ pc'[r] = "reading" => files[target] # NoFile
          /\ \A r \in Reqs :
               (pc[r] = "reading" /\ pc'[r] = "hit")
                  => el'[r] = Append(el[r], ImgNode(ReadAsDataUri(files[TargetOf(r)])))
          /\ \A r \in Reqs : (pc[r] # "idle" /\ pc'[r] # "idle") =>
                                  cache_dir'[r] = cache_dir[r] /\ hash'[r] = hash[r]
          /\ files' # files =>
               \E r \in Reqs :
                  /\ store[r].st = "pending" /\ store'[r].st = "done"
                  /\ files' = [files EXCEPT ![TargetOf(r)] =
                                  Base64Decode(StripPrefix(store[r].data))]]_vars

(* A request wrote its image under the absolute directory it had resolved
   after the setting was changed to a relative one, and a later request read
   the file a request had stored under the directory joined onto the vault *)
C31_Witness ==
    \E r, q \in Reqs :
        /\ cache_dir[r] = <<"/", "v", "a", "r", "/", "c", "a", "c", "h", "e">> /\ store[r].st = "done"
        /\ files[TargetOf(r)] # NoFile
        /\ settings.directory = <<".", ".", "/", "s", "h", "a", "r", "e", "d">>
        /\ cache_dir[q] = <<"/", "s", "h", "a", "r", "e", "d">> /\ q # r

----------------------------------------------------------------------------
(* The step handles a success message that passes the guard of r's handler *)
HandlesSuccessFor(r) ==
    /\ DeliverStep
    /\ r \in listeners
    /\ Head(msgs).origin = AppOrigin /\ Head(msgs).t = GraphTag
    /\ Head(msgs).hash = hash[r]
    /\ Head(msgs).d = "render"

(* The request r missed the cache and no success message was handled for it *)
StillWaiting(r) == pc[r] \in {"waiting", "errored"}

(* C32: a request that missed the cache and for which no matching success
   message has been handled is unresolved and has its listener registered, in
   every state; the only step that resolves the promise of such a request, or
   removes its listener, is the handling of a matching success message. No
   step gives up on it or cancels it. *)
C32_NoTimeout ==
    /\ [](\A r \in Reqs : StillWaiting(r) => (r \notin resolved /\ r \in listeners))
    /\ [][\A r \in Reqs :
            /\ (StillWaiting(r) /\ ~HandlesSuccessFor(r)) => StillWaiting(r)'
            /\ (r \notin resolved /\ r \in resolved') => (StillWaiting(r) /\ HandlesSuccessFor(r))
            /\ (r \in listeners /\ r \notin listeners') => HandlesSuccessFor(r)]_vars

(* The renderer answered a request with an error and will send nothing more:
   the request is unresolved and still listens, while another request was
   completed *)
C32_Witness ==
    \E r, q \in Reqs :
        /\ pc[r] = "errored" /\ r \notin resolved /\ r \in listeners
        /\ msgs = <<>>
        /\ pc[q] = "done" /\ q \in resolved

----------------------------------------------------------------------------
(* The requests whose handler takes the oldest queued message *)
Takers == {r \in listeners : hash[r] = Head(msgs).hash}

(* C33: the delivery of a success message completes, in that one step, every
   request that is pending for the message's fingerprint: each shows the
   image, is resolved, stores the image as the cache settings say and has its
   listener removed. The delivery touches no other request, so a success
   message that arrives when the requests for its fingerprint are completed
   changes no request and stores nothing. *)
C33_OneSuccessCompletesAll ==
    [][(DeliverStep /\ Head(msgs).d = "render") =>
          LET m == Head(msgs) IN
          /\ \A r \in Takers :
                /\ el'[r] = <<ImgNode(m.data)>>
                /\ pc'[r] = "done"
                /\ r \in resolved'
                /\ r \notin listeners'
                /\ store'[r].data = m.data
                /\ settings.location = "Memory" =>
                      (store'[r].st = "memory" /\ graph_cache'[m.hash] = m.data)
                /\ settings.location = "Filesystem" =>
                      store'[r].st = (IF cache_dir[r] \in dirs THEN "pending" ELSE "nodir")
          /\ \A r \in Reqs \ Takers :
                /\ el'[r] = el[r] /\ pc'[r] = pc[r]
                /\ (r \in resolved') = (r \in resolved)
                /\ (r \in listeners') = (r \in listeners)
                /\ store'[r] = store[r] /\ notices'[r] = notices[r]
          /\ Takers = {} => (graph_cache' = graph_cache /\ store' = store /\ notices' = notices)
          /\ files' = files]_vars

(* Two requests for one fingerprint were completed by the first of two
   success messages: both show its image and are resolved, none listens, and
   the second message is still to be delivered *)
C33_Witness ==
    \E r1, r2 \in Reqs :
        /\ r1 # r2 /\ hash[r1] = hash[r2]
        /\ pc[r1] = "done" /\ pc[r2] = "done"
        /\ {r1, r2} \subseteq resolved /\ listeners = {}
        /\ el[r1] = el[r2] /\ el[r1] = <<ImgNode(DataUri("pngA"))>>
        /\ store[r1].st # NoWrite.st /\ store[r2].st # NoWrite.st
        /\ msgs = <<RenderMsg(hash[r1], "pngB")>>

----------------------------------------------------------------------------
(* The character an escape sequence of a string literal stands for *)
EscapedChar(c) ==
    CASE c = "n" -> "\n"
      [] c = "t" -> "\t"
      [] c \in {"b", "f", "r", "v", "0"} -> "(control)"
      [] OTHER -> c

(* The value of the double-quoted string literal that begins the script text
   t, read from position i on with the value acc read so far; ok tells
   whether the closing quote is the last character of t *)
RECURSIVE Evaluate(_, _, _)
Evaluate(t, i, acc) ==
    IF i > Len(t) THEN [value |-> acc, ok |-> FALSE]
    ELSE IF t[i] = "\"" THEN [value |-> acc, ok |-> i = Len(t)]
    ELSE IF t[i] = "\\"
         THEN IF i = Len(t) THEN [value |-> acc, ok |-> FALSE]
              ELSE Evaluate(t, i + 2, Append(acc, EscapedChar(t[i + 1])))
         ELSE Evaluate(t, i + 1, Append(acc, t[i]))

(* C34: in the command written for an equation the expression stands with
   every one of its backslashes doubled, and the string literal holding it
   ends at its closing quote and has a value that begins with the
   expression as it was written. *)
C34_EveryBackslashEscaped ==
    \A r \in Calls :
        (Returned(r) /\ srcdoc[r] # NoDoc) =>
            \A e \in 1..Len(parsed[r].val.equations) :
                LET expression == Get(parsed[r].val.equations[e], kEquation)
                    literal == Get(srcdoc[r].expressions[e], "latex")
                    evaluated == Evaluate(literal, 2, <<>>)
                IN /\ StartsWith(literal,
                                 <<"\"">> \o ReplaceAll(expression, <<"\\">>, <<"\\", "\\">>))
                   /\ evaluated.ok
                   /\ StartsWith(evaluated.value, expression)

----------------------------------------------------------------------------
(* The field names that more than one entry of a settings block names *)
Repeated(entries) == {k \in FieldNames : Cardinality(Naming(entries, k)) > 1}

(* The value a field has when, of the entries naming it, the last one counts *)
LastValue(entries, k) ==
    IF Naming(entries, k) = {} THEN DefaultOf(k)
    ELSE ParseInt(ValueOf(entries[Max(Naming(entries, k))])).n

(* C35: for a source whose settings block names a field more than once:
   when every entry names a field and has a value parseInt reads, the
   boundaries given by the last entries are in order and the body alone is
   accepted, then the source is accepted, so the repetition itself is no
   error; an entry without a readable value is refused also when a later
   entry names the same field; and in the Dsl returned each repeated field
   has the value of the last entry naming it. *)
C35_LastOccurrenceWins ==
    \A i \in Calls :
        (Parsed(i) /\ Len(Segments(source[i])) = 2
               /\ Repeated(Entries(source[i])) # {}) =>
            LET entries == Entries(source[i])
                valid == \A e \in 1..Len(entries) :
                            KeyOf(entries[e]) \in FieldNames /\ Readable(entries[e])
                ordered == /\ LastValue(entries, kLeft) < LastValue(entries, kRight)
                           /\ LastValue(entries, kBottom) < LastValue(entries, kTop)
            IN /\ (valid /\ ordered /\ parse(Segments(source[i])[2]).ok) => parsed[i].ok
               /\ ~valid => ~parsed[i].ok
               /\ parsed[i].ok =>
                     \A k \in Repeated(entries) :
                        Get(parsed[i].val.fields, k) = LastValue(entries, k)

(* left=15;left=5 was accepted with left = 5, where the first entry alone
   would have crossed the right boundary *)
C35_Witness ==
    /\ source[1] = <<"l", "e", "f", "t", "=", "1", "5", ";", "l", "e", "f", "t", "=", "5", "-", "-", "-", "y", "=", "x">>
    /\ Returned(1) /\ Get(parsed[1].val.fields, kLeft) = 5
    /\ Get(parsed[1].val.fields, kRight) = 10

----------------------------------------------------------------------------
(* The debounce setting is a number of at least 1 *)
Positive(d) == d.set /\ d.ms >= 1

(* The step in which the code block processor is called for the request r *)
ProcessorStep(r) == route[r] = "none" /\ route'[r] # "none"

(* The step calls the render closure for r: parse is run on its source *)
RenderedIn(r) == ~Parsed(r) /\ Parsed(r)'

(* C36: while the debounce setting is positive, a request made with the skip
   flag set is rendered in the step it is made in and leaves the flag
   cleared, and a request made with the flag cleared goes to the debouncer
   and is not rendered in that step; the flag is set by the layout-change
   event alone, a step in which no request is made, and is cleared by a
   request alone, so of the requests after one layout-change only the first
   is rendered at once. While the setting is not set or is below 1 every
   request is rendered in the step it is made in. *)
C36_SkipFlagConsumedOnce ==
    [][/\ \A r \in Calls :
             ProcessorStep(r) =>
                /\ (Positive(debounce) /\ skip_debounce) =>
                       (route'[r] = "immediate" /\ RenderedIn(r) /\ ~skip_debounce')
                /\ (Positive(debounce) /\ ~skip_debounce) =>
                       /\ route'[r] = "debounced" /\ ~Parsed(r)' /\ pc'[r] = "idle"
                       /\ pending'.r = r
                       /\ ~skip_debounce'
                /\ ~Positive(debounce) => (route'[r] = "immediate" /\ RenderedIn(r))
       /\ (~skip_debounce /\ skip_debounce') =>
             (route' = route /\ pending' = pending /\ parsed' = parsed)
       /\ (skip_debounce /\ ~skip_debounce') =>
             \E r \in Calls : ProcessorStep(r) /\ route'[r] = "immediate"]_vars

(* Under the default debounce, two requests were made and a layout-change
   came before the first only: the first was rendered at once and the second
   waits in the debouncer with the flag cleared *)
C36_Witness ==
    /\ debounce = DEFAULT_DEBOUNCE
    /\ route[1] = "immediate" /\ Parsed(1)
    /\ route[2] = "debounced" /\ ~Parsed(2) /\ pending.r = 2
    /\ ~skip_debounce

====
